---- MODULE Spec2Model ----
(***************************************************************************)
(* A model of embed-rs/net: the TCP passive endpoint of src/src/tcp.rs     *)
(* (TcpConnection::handle_packet) and the layered packet builder           *)
(* (TxPacket / WriteOut) of src/src/lib.rs and the per-protocol codecs.    *)
(*                                                                         *)
(* Five specifications share the variables:                                *)
(*   Spec        drives one TcpConnection through handle_packet calls;     *)
(*   CodecSpec   allocates HeapTxPackets and writes typed records to them; *)
(*   BuilderSpec calls the TxPacket methods of one HeapTxPacket;           *)
(*   ParseSpec   hands frames to the parsers of the Parse trait;           *)
(*   IcmpSpec    writes ICMP packets, parses them and answers them.        *)
(***************************************************************************)
EXTENDS Integers, Sequences, FiniteSets, TLC

VARIABLES
    conn,        \* the TcpConnection (tcp.rs:93-102)
    pre,         \* the TcpConnection as it was when the last call began
    pkt,         \* the TcpPacket handed to the last handle_packet call
    reply,       \* the Option<TcpPacket> the last call returned
    called,      \* payloads the callback f was invoked with in the last call
    cb_ret,      \* what f returned in the last call (None if not invoked)
    panicked,    \* the last call aborted in assert! / panic!
    calls,       \* number of handle_packet calls so far
    emitted_syn, \* number of returned segments with SYN set
    emitted_fin, \* number of returned segments with FIN set
    emitted_len, \* total payload bytes of the returned segments
    delivered,   \* the packets delivered so far, while they follow SYN, ACK, FIN+ACK, ACK
    accepted,    \* seq and payload of the data segment last accepted in Established
    tx,          \* the HeapTxPacket: bytes pushed and capacity (lib.rs:131)
    rec,         \* the record last written with write_out
    wres,        \* Result of the last write_out: "none", "ok", "err", "panic"
    bcall,       \* the last TxPacket method call: its arguments and what it returned
    frame,       \* the bytes handed to the parser
    sent,        \* the record the frame was written from, if it was
    parsed       \* what the last parse call returned

tcpVars == <<conn, pre, pkt, reply, called, cb_ret, panicked, calls,
             emitted_syn, emitted_fin, emitted_len, delivered, accepted>>
codecVars == <<tx, rec, wres>>
builderVars == <<bcall>>
parseVars == <<frame, sent, parsed>>
vars == <<conn, pre, pkt, reply, called, cb_ret, panicked, calls,
          emitted_syn, emitted_fin, emitted_len, delivered, accepted,
          tx, rec, wres, bcall, frame, sent, parsed>>

----------------------------------------------------------------------------
(* Bounds of the model *)

\* handle_packet calls per behaviour
MaxCalls == 5
\* longest payload of a delivered segment
MaxPayloadLen == 2
\* longest reply the callback returns
MaxReplyLen == 2

----------------------------------------------------------------------------
(* Option<T> *)

None == [some |-> FALSE]
Some(x) == [some |-> TRUE, val |-> x]

----------------------------------------------------------------------------
(* Wrapping<u32>: a 32-bit value is kept as its two 16-bit halves, so that  *)
(* the full width, and the wrap past 2^32, are kept.                        *)

Half == 65536

u32(n) == [hi |-> (n \div Half) % Half, lo |-> n % Half]

\* Wrapping<u32> + Wrapping<u32>
wrapping_add(a, b) ==
    LET s == a.lo + b.lo
    IN  [hi |-> (a.hi + b.hi + (s \div Half)) % Half, lo |-> s % Half]

\* Wrapping<u32> < Wrapping<u32> (derived PartialOrd: plain unsigned compare)
lt(a, b) == \/ a.hi < b.hi
            \/ a.hi = b.hi /\ a.lo < b.lo

U32Max == [hi |-> Half - 1, lo |-> Half - 1]

----------------------------------------------------------------------------
(* bit_field::BitField on u8 *)

Pow2(i) == 2 ^ i

get_bit(byte, i) == (byte \div Pow2(i)) % 2 = 1

set_bit(byte, i, value) ==
    IF get_bit(byte, i) = value THEN byte
    ELSE IF value THEN byte + Pow2(i) ELSE byte - Pow2(i)

get_bits(byte, from, to) == (byte \div Pow2(from)) % Pow2(to - from)

----------------------------------------------------------------------------
(* TcpOptions (tcp.rs:223-308) *)

TcpOptions_new == [header_len |-> 5 * 16, flags |-> 0]

TcpOptions_from_bytes(hl, fl) == [header_len |-> hl, flags |-> fl]

header_len(o) == get_bits(o.header_len, 4, 8)

ack(o) == get_bit(o.flags, 4)
psh(o) == get_bit(o.flags, 3)
rst(o) == get_bit(o.flags, 2)
syn(o) == get_bit(o.flags, 1)
fin(o) == get_bit(o.flags, 0)

set_ack(o, v) == [o EXCEPT !.flags = set_bit(@, 4, v)]
set_syn(o, v) == [o EXCEPT !.flags = set_bit(@, 1, v)]
set_fin(o, v) == [o EXCEPT !.flags = set_bit(@, 0, v)]

new_ack == set_ack(TcpOptions_new, TRUE)

new_syn_ack == set_ack(set_syn(TcpOptions_new, TRUE), TRUE)

\* flag bytes of the segments a peer sends
FIN == 1
SYN == 2
RST == 4
PSH == 8
ACK == 16

----------------------------------------------------------------------------
(* TcpConnection (tcp.rs:93-203) *)

States == {"Closed", "Listen", "SynSent", "SynReceived", "Established",
           "FinWait1", "FinWait2", "CloseWait", "Closing", "LastAck", "TimeWait"}

TcpConnection_new(id) ==
    [src_ip |-> id[1], dst_ip |-> id[2], src_port |-> id[3], dst_port |-> id[4],
     state |-> "Listen",
     sequence_number |-> u32(74565),
     ack_number |-> u32(0),
     window_size |-> 1000]

\* what one handle_packet call does: the connection afterwards, the value
\* returned, the payloads f was called with, and whether the call aborted
Outcome(c, r, k, p) == [conn |-> c, ret |-> r, called |-> k, panic |-> p]

\* handle_syn answering from the connection's own ports (ports not swapped)
handle_syn_same_ports(self, packet) ==
    IF ack(packet.header.options)
    THEN Outcome(self, None, <<>>, TRUE)
    ELSE LET ack_number == wrapping_add(packet.header.sequence_number, u32(1))
             header == [src_port |-> self.src_port,
                        dst_port |-> self.dst_port,
                        sequence_number |-> self.sequence_number,
                        ack_number |-> ack_number,
                        window_size |-> self.window_size,
                        options |-> new_syn_ack]
         IN  Outcome([self EXCEPT !.ack_number = ack_number,
                                  !.state = "SynReceived",
                                  !.sequence_number = wrapping_add(@, u32(1))],
                     Some([header |-> header, payload |-> <<>>]),
                     <<>>, FALSE)

\* arm of tcp.rs:125-142
handle_syn(self, packet) ==
    IF ack(packet.header.options)
    THEN Outcome(self, None, <<>>, TRUE)
    ELSE LET ack_number == wrapping_add(packet.header.sequence_number, u32(1))
             header == [src_port |-> self.dst_port,
                        dst_port |-> self.src_port,
                        sequence_number |-> self.sequence_number,
                        ack_number |-> ack_number,
                        window_size |-> self.window_size,
                        options |-> new_syn_ack]
         IN  Outcome([self EXCEPT !.ack_number = ack_number,
                                  !.state = "SynReceived",
                                  !.sequence_number = wrapping_add(@, u32(1))],
                     Some([header |-> header, payload |-> <<>>]),
                     <<>>, FALSE)

\* handle_syn_received_ack advancing snd_seq a second time for the SYN
handle_syn_received_ack_advance(self, packet) ==
    Outcome([self EXCEPT !.state = "Established",
                         !.sequence_number = wrapping_add(@, u32(1))],
            None, <<>>, FALSE)

\* arm of tcp.rs:143-146
handle_syn_received_ack(self, packet) ==
    Outcome([self EXCEPT !.state = "Established"], None, <<>>, FALSE)

\* handle_last_ack forgetting the transition
handle_last_ack_stay(self, packet) ==
    Outcome(self, None, <<>>, FALSE)

\* handle_last_ack lingering in TimeWait instead of closing
handle_last_ack_time_wait(self, packet) ==
    Outcome([self EXCEPT !.state = "TimeWait"], None, <<>>, FALSE)

\* arm of tcp.rs:147-150
handle_last_ack(self, packet) ==
    Outcome([self EXCEPT !.state = "Closed"], None, <<>>, FALSE)

\* handle_fin not counting the FIN in snd_seq
handle_fin_no_advance(self, packet) ==
    LET header == [src_port |-> self.dst_port,
                   dst_port |-> self.src_port,
                   sequence_number |-> self.sequence_number,
                   ack_number |-> wrapping_add(packet.header.sequence_number, u32(1)),
                   window_size |-> 1000,
                   options |-> set_fin(new_ack, TRUE)]
    IN  Outcome([self EXCEPT !.state = "LastAck"],
                Some([header |-> header, payload |-> <<>>]),
                <<>>, FALSE)

\* arm of tcp.rs:151-168
handle_fin(self, packet) ==
    LET header == [src_port |-> self.dst_port,
                   dst_port |-> self.src_port,
                   sequence_number |-> self.sequence_number,
                   ack_number |-> wrapping_add(packet.header.sequence_number, u32(1)),
                   window_size |-> 1000,
                   options |-> set_fin(new_ack, TRUE)]
    IN  Outcome([self EXCEPT !.state = "LastAck",
                             !.sequence_number = wrapping_add(@, u32(1))],
                Some([header |-> header, payload |-> <<>>]),
                <<>>, FALSE)

\* handle_established building the reply header before rcv_ack is advanced
handle_established_stale_ack(self, packet, f) ==
    IF packet.header.sequence_number = self.ack_number
    THEN LET s1 == [self EXCEPT !.ack_number =
                        wrapping_add(@, u32(Len(packet.payload)))]
         IN  IF ack(packet.header.options) /\ Len(packet.payload) = 0
             THEN Outcome(s1, None, <<>>, FALSE)
             ELSE LET header == [src_port |-> self.dst_port,
                                 dst_port |-> self.src_port,
                                 sequence_number |-> self.sequence_number,
                                 ack_number |-> self.ack_number,
                                 window_size |-> self.window_size,
                                 options |-> new_ack]
                  IN  IF f.some
                      THEN Outcome([s1 EXCEPT !.sequence_number =
                                       wrapping_add(@, u32(Len(f.val)))],
                                   Some([header |-> header, payload |-> f.val]),
                                   <<packet.payload>>, FALSE)
                      ELSE Outcome(s1,
                                   Some([header |-> header, payload |-> <<>>]),
                                   <<packet.payload>>, FALSE)
    ELSE IF lt(packet.header.sequence_number, self.ack_number)
         THEN Outcome(self, None, <<>>, FALSE)
         ELSE Outcome(self, None, <<>>, TRUE)

\* handle_established handing bare ACKs to the callback as well
handle_established_bare_ack_delivered(self, packet, f) ==
    IF packet.header.sequence_number = self.ack_number
    THEN LET s1 == [self EXCEPT !.ack_number =
                        wrapping_add(@, u32(Len(packet.payload)))]
             header == [src_port |-> s1.dst_port,
                        dst_port |-> s1.src_port,
                        sequence_number |-> s1.sequence_number,
                        ack_number |-> s1.ack_number,
                        window_size |-> s1.window_size,
                        options |-> new_ack]
         IN  IF f.some
             THEN Outcome([s1 EXCEPT !.sequence_number =
                              wrapping_add(@, u32(Len(f.val)))],
                          Some([header |-> header, payload |-> f.val]),
                          <<packet.payload>>, FALSE)
             ELSE Outcome(s1,
                          Some([header |-> header, payload |-> <<>>]),
                          <<packet.payload>>, FALSE)
    ELSE IF lt(packet.header.sequence_number, self.ack_number)
         THEN Outcome(self, None, <<>>, FALSE)
         ELSE Outcome(self, None, <<>>, TRUE)

\* arm of tcp.rs:169-199; f is what the callback returns if it is invoked
handle_established(self, packet, f) ==
    IF packet.header.sequence_number = self.ack_number
    THEN LET s1 == [self EXCEPT !.ack_number =
                        wrapping_add(@, u32(Len(packet.payload)))]
         IN  IF ack(packet.header.options) /\ Len(packet.payload) = 0
             THEN Outcome(s1, None, <<>>, FALSE)
             ELSE LET header == [src_port |-> s1.dst_port,
                                 dst_port |-> s1.src_port,
                                 sequence_number |-> s1.sequence_number,
                                 ack_number |-> s1.ack_number,
                                 window_size |-> s1.window_size,
                                 options |-> new_ack]
                  IN  IF f.some
                      THEN Outcome([s1 EXCEPT !.sequence_number =
                                       wrapping_add(@, u32(Len(f.val)))],
                                   Some([header |-> header, payload |-> f.val]),
                                   <<packet.payload>>, FALSE)
                      ELSE Outcome(s1,
                                   Some([header |-> header, payload |-> <<>>]),
                                   <<packet.payload>>, FALSE)
    ELSE IF lt(packet.header.sequence_number, self.ack_number)
         THEN Outcome(self, None, <<>>, FALSE)
         ELSE Outcome(self, None, <<>>, TRUE)

\* handle_packet without the Closed arm in front: a Closed connection
\* falls through to the SYN arm and is opened again
handle_packet_reopen(self, packet, f) ==
    IF self.state \in {"Closed", "Listen", "SynReceived"} /\ syn(packet.header.options)
    THEN handle_syn(self, packet)
    ELSE IF self.state = "SynReceived" /\ ack(packet.header.options)
    THEN handle_syn_received_ack(self, packet)
    ELSE IF self.state = "LastAck" /\ ack(packet.header.options)
    THEN handle_last_ack(self, packet)
    ELSE IF self.state = "Established" /\ fin(packet.header.options)
    THEN handle_fin(self, packet)
    ELSE IF self.state = "Established"
    THEN handle_established(self, packet, f)
    ELSE Outcome(self, None, <<>>, FALSE)

\* TcpConnection::handle_packet: the arms of the match, in order
handle_packet(self, packet, f) ==
    IF self.state = "Closed"
    THEN Outcome(self, None, <<>>, FALSE)
    ELSE IF self.state \in {"Listen", "SynReceived"} /\ syn(packet.header.options)
    THEN handle_syn(self, packet)
    ELSE IF self.state = "SynReceived" /\ ack(packet.header.options)
    THEN handle_syn_received_ack(self, packet)
    ELSE IF self.state = "LastAck" /\ ack(packet.header.options)
    THEN handle_last_ack(self, packet)
    ELSE IF self.state = "Established" /\ fin(packet.header.options)
    THEN handle_fin(self, packet)
    ELSE IF self.state = "Established"
    THEN handle_established(self, packet, f)
    ELSE Outcome(self, None, <<>>, FALSE)

----------------------------------------------------------------------------
(* The inputs of handle_packet *)

\* four-tuples a listener accepts
ConnIds == { <<<<10, 0, 0, 1>>, <<10, 0, 0, 2>>, 40000, 80>>,
             <<<<192, 168, 0, 7>>, <<10, 0, 0, 2>>, 1234, 8080>> }

\* flag bytes of the delivered segments
FlagBytes == {0, FIN, SYN, ACK, SYN + ACK, FIN + ACK, PSH + ACK, RST, RST + ACK}

\* byte strings of length n: 1, 2, .., n
Bytes(n) == [i \in 1..n |-> i]

Payloads == { Bytes(n) : n \in 0..MaxPayloadLen }

\* what the application callback may return
CallbackReturns == {None} \cup { Some([i \in 1..n |-> 200 + i]) : n \in 0..MaxReplyLen }

\* sequence numbers a peer sends: three initial sequence numbers (two at the
\* top of the 32-bit space, so that rcv_ack wraps) and, once the connection
\* is Established and compares them, the numbers around the one it expects
SeqNumbers(c) ==
    { u32(1000), [hi |-> Half - 1, lo |-> Half - 2], U32Max }
    \cup IF c.state = "Established"
         THEN { c.ack_number,
                wrapping_add(c.ack_number, u32(1)),
                wrapping_add(c.ack_number, U32Max) }
         ELSE {}

TcpPacket(s, fl, payload) ==
    [header |-> [sequence_number |-> s, options |-> TcpOptions_from_bytes(5 * 16, fl)],
     payload |-> payload]

Packets(c) == { TcpPacket(s, fl, p) : s \in SeqNumbers(c), fl \in FlagBytes, p \in Payloads }

----------------------------------------------------------------------------
(* The scenario SYN, ACK, FIN+ACK, ACK of a peer that opens and closes *)

Script == <<SYN, ACK, FIN + ACK, ACK>>

\* packet is the n-th segment of the scenario; its FIN comes in order
FollowsScript(n, c, packet) ==
    /\ n <= Len(Script)
    /\ packet.header.options.flags = Script[n]
    /\ fin(packet.header.options) => packet.header.sequence_number = c.ack_number

Deliver(d, c, packet) ==
    IF d.on /\ FollowsScript(Len(d.pkts) + 1, c, packet)
    THEN [on |-> TRUE, pkts |-> Append(d.pkts, packet)]
    ELSE [on |-> FALSE, pkts |-> <<>>]

----------------------------------------------------------------------------
(* TxPacket and HeapTxPacket (lib.rs:41-86, 131-165).  A builder is the     *)
(* bytes pushed so far and the capacity of the Vec; err is set by the push  *)
(* that found no space, after which the `?` of every write_out returns, so  *)
(* nothing more is pushed or patched; panic is set by an unwrap that fails. *)

\* HeapTxPacket::new: Vec::with_capacity(max_len), taken to allocate max_len
HeapTxPacket_new(max_len) ==
    [data |-> <<>>, cap |-> max_len, err |-> FALSE, panic |-> FALSE]

Stopped(p) == p.err \/ p.panic

\* HeapTxPacket::push_bytes refusing the push that fills the Vec exactly
push_bytes_no_exact_fill(p, bytes) ==
    IF Stopped(p) THEN p
    ELSE IF p.cap - Len(p.data) <= Len(bytes)
         THEN [p EXCEPT !.err = TRUE]
         ELSE [p EXCEPT !.data = @ \o bytes]

\* HeapTxPacket::push_bytes
push_bytes(p, bytes) ==
    IF Stopped(p) THEN p
    ELSE IF p.cap - Len(p.data) < Len(bytes)
         THEN [p EXCEPT !.err = TRUE]
         ELSE [p EXCEPT !.data = @ \o bytes]

push_byte(p, value) == push_bytes(p, <<value>>)

\* NetworkEndian::write_u16
be_u16(value) == <<value \div 256, value % 256>>

\* NetworkEndian::write_u32, of a value kept as its two halves
be_u32(value) == be_u16(value.hi) \o be_u16(value.lo)

\* NetworkEndian::read_u16
read_u16(bytes) == bytes[1] * 256 + bytes[2]

push_u16(p, value) == push_bytes(p, be_u16(value))

push_u32(p, value) == push_bytes(p, be_u32(value))

\* the pushes of a write_out, one after the other
RECURSIVE push_all(_, _)
push_all(p, chunks) ==
    IF chunks = <<>> THEN p
    ELSE LET q == push_bytes(p, Head(chunks))
         IN  IF Stopped(q) THEN q ELSE push_all(q, Tail(chunks))

\* TxPacket::get_bytes; index counts from 0 as in the source
get_bytes(p, index, n) == SubSeq(p.data, index + 1, index + n)

\* TxPacket::set_bytes
set_bytes(p, index, bytes) ==
    IF Stopped(p) THEN p
    ELSE IF index + Len(bytes) > Len(p.data) THEN [p EXCEPT !.panic = TRUE]
    ELSE [p EXCEPT !.data =
            SubSeq(p.data, 1, index) \o bytes
            \o SubSeq(p.data, index + Len(bytes) + 1, Len(p.data))]

\* TxPacket::set_u16
set_u16(p, index, value) == set_bytes(p, index, be_u16(value))

----------------------------------------------------------------------------
(* ip_checksum.rs *)

propagate_carries(word) ==
    LET sum == (word \div Half) + (word % Half)
    IN  ((sum \div Half) % Half) + (sum % Half)

\* the word the loop of ip_checksum::data reads at byte offset i (from 0)
word_at(d, i) ==
    IF i + 2 <= Len(d) THEN d[i + 1] * 256 + d[i + 2] ELSE d[i + 1] * 256

\* accum after the loop has added the words k (from..to) at offsets 2k
RECURSIVE sum_words(_, _, _)
sum_words(d, from, to) ==
    IF from > to THEN 0
    ELSE IF from = to THEN word_at(d, 2 * from)
    ELSE LET mid == (from + to) \div 2
         IN  sum_words(d, from, mid) + sum_words(d, mid + 1, to)

\* ip_checksum::data
ip_checksum_data(d) == propagate_carries(sum_words(d, 0, (Len(d) + 1) \div 2 - 1))

RECURSIVE sum_seq(_)
sum_seq(checksums) ==
    IF checksums = <<>> THEN 0 ELSE Head(checksums) + sum_seq(Tail(checksums))

\* ip_checksum::combine
ip_checksum_combine(checksums) == propagate_carries(sum_seq(checksums))

\* ip_checksum::pseudo_header
ip_checksum_pseudo_header(src_addr, dst_addr, protocol_number, length) ==
    LET proto_len == <<0, protocol_number>> \o be_u16(length % Half)
    IN  ip_checksum_combine(<<ip_checksum_data(src_addr),
                              ip_checksum_data(dst_addr),
                              ip_checksum_data(proto_len)>>)

\* !x on u16
not_u16(x) == (Half - 1) - x

----------------------------------------------------------------------------
(* WriteOut: len and write_out of every typed record *)

RECURSIVE WriteOut_len(_), WriteOut_write_out(_, _)

Zeros(n) == [i \in 1..n |-> 0]

\* impl WriteOut for &[u8] and for Cow<[u8]> (lib.rs:103-121)
Slice_len(r) == Len(r.bytes)

Slice_write_out(r, p) == push_bytes(p, r.bytes)

\* EtherType::number
EtherType_number(t) ==
    CASE t.tag = "Ipv4" -> 2048
      [] t.tag = "Arp" -> 2054
      [] OTHER -> t.number

\* impl WriteOut for EthernetPacket<T> (ethernet.rs:117-131)
EthernetPacket_len(r) == WriteOut_len(r.payload) + 2 * 6 + 2

EthernetPacket_write_out(r, p) ==
    LET p1 == push_bytes(p, r.header.dst_addr)
        p2 == push_bytes(p1, r.header.src_addr)
        p3 == push_u16(p2, EtherType_number(r.header.ether_type))
    IN  WriteOut_write_out(r.payload, p3)

\* impl WriteOut for ArpPacket (arp.rs:55-79)
ArpPacket_len(r) == 28

ArpPacket_write_out(r, p) ==
    push_all(p, << be_u16(1), be_u16(2048), <<6>>, <<4>>,
                   be_u16(IF r.operation = "Request" THEN 1 ELSE 2),
                   r.src_mac, r.src_ip, r.dst_mac, r.dst_ip >>)

\* IpProtocol::number
IpProtocol_number(t) ==
    CASE t.tag = "Icmp" -> 1
      [] t.tag = "Tcp" -> 6
      [] t.tag = "Udp" -> 17
      [] OTHER -> t.number

\* Ipv4Packet::header_len
Ipv4Packet_header_len == 20

\* impl WriteOut for Ipv4Packet<T>: len (ipv4.rs:139-141)
Ipv4Packet_len(r) == WriteOut_len(r.payload) + Ipv4Packet_header_len

\* Ipv4Packet::write_out_impl storing the sum of the header words, not its
\* complement
Ipv4Packet_write_out_impl_no_complement(r, p) ==
    LET start_index == Len(p.data)
        p1 == push_byte(p, 4 * 16 + Ipv4Packet_header_len \div 4)
        p2 == push_byte(p1, 0)
        total_len == Ipv4Packet_len(r)
        p3 == IF Stopped(p2) \/ total_len < Half THEN push_u16(p2, total_len)
              ELSE [p2 EXCEPT !.panic = TRUE]
        p4 == push_u16(p3, 0)
        p5 == push_u16(p4, 16384)
        p6 == push_byte(p5, 64)
        p7 == push_byte(p6, IpProtocol_number(r.header.protocol))
        checksum_idx == Len(p7.data)
        p8 == push_u16(p7, 0)
        p9 == push_bytes(p8, r.header.src_addr)
        p10 == push_bytes(p9, r.header.dst_addr)
        end_index == Len(p10.data)
        checksum == ip_checksum_data(SubSeq(p10.data, start_index + 1, end_index))
    IN  set_u16(p10, checksum_idx, checksum)

\* Ipv4Packet::write_out_impl (ipv4.rs:110-135)
Ipv4Packet_write_out_impl(r, p) ==
    LET start_index == Len(p.data)
        p1 == push_byte(p, 4 * 16 + Ipv4Packet_header_len \div 4)
        p2 == push_byte(p1, 0)
        total_len == Ipv4Packet_len(r)
        p3 == IF Stopped(p2) \/ total_len < Half THEN push_u16(p2, total_len)
              ELSE [p2 EXCEPT !.panic = TRUE]
        p4 == push_u16(p3, 0)
        p5 == push_u16(p4, 16384)
        p6 == push_byte(p5, 64)
        p7 == push_byte(p6, IpProtocol_number(r.header.protocol))
        checksum_idx == Len(p7.data)
        p8 == push_u16(p7, 0)
        p9 == push_bytes(p8, r.header.src_addr)
        p10 == push_bytes(p9, r.header.dst_addr)
        end_index == Len(p10.data)
        checksum == not_u16(ip_checksum_data(SubSeq(p10.data, start_index + 1, end_index)))
    IN  set_u16(p10, checksum_idx, checksum)

\* impl WriteOut for UdpPacket<T> (udp.rs:46-68)
UdpPacket_len(r) == WriteOut_len(r.payload) + 4 * 2

UdpPacket_write_out(r, p) ==
    LET start_index == Len(p.data)
        p1 == push_u16(p, r.header.src_port)
        p2 == push_u16(p1, r.header.dst_port)
        p3 == IF Stopped(p2) \/ UdpPacket_len(r) < Half
              THEN push_u16(p2, UdpPacket_len(r))
              ELSE [p2 EXCEPT !.panic = TRUE]
        checksum_idx == Len(p3.data)
        p4 == push_u16(p3, 0)
        p5 == WriteOut_write_out(r.payload, p4)
        end_index == Len(p5.data)
        checksum == not_u16(ip_checksum_data(SubSeq(p5.data, start_index + 1, end_index)))
    IN  set_u16(p5, checksum_idx, checksum)

\* impl WriteOut for Ipv4Packet<T>: the default write_out (ipv4.rs:143-146)
Ipv4Packet_write_out_default(r, p) ==
    WriteOut_write_out(r.payload, Ipv4Packet_write_out_impl(r, p))

\* the write_out of Ipv4Packet<UdpPacket<T>> leaving the checksum of the
\* UDP bytes as UdpPacket::write_out stored it
Ipv4Packet_write_out_udp_no_pseudo_header(r, p) ==
    UdpPacket_write_out(r.payload, Ipv4Packet_write_out_impl(r, p))

\* impl WriteOut for Ipv4Packet<UdpPacket<T>> (ipv4.rs:149-170)
Ipv4Packet_write_out_udp(r, p) ==
    LET p1 == Ipv4Packet_write_out_impl(r, p)
        udp_start_index == Len(p1.data)
        p2 == UdpPacket_write_out(r.payload, p1)
        pseudo_header_checksum ==
            not_u16(ip_checksum_pseudo_header(r.header.src_addr, r.header.dst_addr,
                                              IpProtocol_number(r.header.protocol),
                                              UdpPacket_len(r.payload)))
        udp_checksum_idx == udp_start_index + 3 * 2
    IN  IF Stopped(p2) THEN p2
        ELSE set_u16(p2, udp_checksum_idx,
                     ip_checksum_combine(<<read_u16(get_bytes(p2, udp_checksum_idx, 2)),
                                           pseudo_header_checksum>>))

\* the specialization the compiler selects for the payload type
Ipv4Packet_write_out(r, p) ==
    IF r.payload.kind = "Udp" THEN Ipv4Packet_write_out_udp(r, p)
    ELSE Ipv4Packet_write_out_default(r, p)

\* impl WriteOut for IcmpPacket<T> (icmp.rs:50-94); data is a byte string
IcmpPacket_len(r) == Len(r.data) + 4 * 2

IcmpPacket_write_out(r, p) ==
    LET start_index == Len(p.data)
        p1 == push_byte(p, IF r.type_.tag = "EchoRequest" THEN 8 ELSE 0)
        p2 == push_byte(p1, 0)
        checksum_idx == Len(p2.data)
        p3 == push_u16(p2, 0)
        p4 == push_u16(p3, r.type_.id)
        p5 == push_u16(p4, r.type_.sequence_number)
        p6 == push_bytes(p5, r.data)
        end_index == Len(p6.data)
        checksum == not_u16(ip_checksum_data(SubSeq(p6.data, start_index + 1, end_index)))
    IN  set_u16(p6, checksum_idx, checksum)

\* impl WriteOut for TcpPacket<T> (tcp.rs:25-52)
TcpPacket_len(r) == WriteOut_len(r.payload) + 6 * 2 + 2 * 4

TcpPacket_write_out(r, p) ==
    LET start_index == Len(p.data)
        p1 == push_u16(p, r.header.src_port)
        p2 == push_u16(p1, r.header.dst_port)
        p3 == push_u32(p2, r.header.sequence_number)
        p4 == push_u32(p3, r.header.ack_number)
        p5 == push_byte(p4, r.header.options.header_len)
        p6 == push_byte(p5, r.header.options.flags)
        p7 == push_u16(p6, r.header.window_size)
        checksum_idx == Len(p7.data)
        p8 == push_u16(p7, 0)
        p9 == push_u16(p8, 0)
        p10 == WriteOut_write_out(r.payload, p9)
        end_index == Len(p10.data)
        checksum == not_u16(ip_checksum_data(SubSeq(p10.data, start_index + 1, end_index)))
    IN  set_u16(p10, checksum_idx, checksum)

\* DhcpPacket::len giving a Request the option bytes of a Discover
DhcpPacket_len_of_discover(r) == 240 + 10

\* impl WriteOut for DhcpPacket (dhcp.rs:56-140), for the two kinds that
\* are written; len and write_out of Offer and Ack are unimplemented!()
DhcpPacket_len(r) ==
    240 + (IF r.operation.tag = "Discover" THEN 10 ELSE 16)

\* DhcpPacket::write_out with the broadcast bit of the flags clear
DhcpPacket_write_out_unicast_flag(r, p) ==
    LET operation == IF r.operation.tag \in {"Discover", "Request"} THEN 1 ELSE 2
        zero_ip == <<0, 0, 0, 0>>
        fixed == << <<operation>>, <<1>>, <<6>>, <<0>>,
                    be_u32(r.transaction_id), be_u16(0), be_u16(0),
                    zero_ip, zero_ip, zero_ip, zero_ip,
                    r.mac, Zeros(10), Zeros(64), Zeros(128),
                    be_u32([hi |-> 25474, lo |-> 21347]) >>
        options ==
            IF r.operation.tag = "Discover"
            THEN << <<53>>, <<1>>, <<1>>,
                    <<55>>, <<4>>, <<1>>, <<3>>, <<15>>, <<6>>,
                    <<255>> >>
            ELSE << <<53>>, <<1>>, <<3>>,
                    <<50>>, <<4>>, r.operation.ip,
                    <<54>>, <<4>>, r.operation.dhcp_server_ip,
                    <<255>> >>
    IN  push_all(push_all(p, fixed), options)

\* DhcpPacket::write_out (dhcp.rs:67-140)
DhcpPacket_write_out(r, p) ==
    LET operation == IF r.operation.tag \in {"Discover", "Request"} THEN 1 ELSE 2
        zero_ip == <<0, 0, 0, 0>>
        fixed == << <<operation>>, <<1>>, <<6>>, <<0>>,
                    be_u32(r.transaction_id), be_u16(0), be_u16(32768),
                    zero_ip, zero_ip, zero_ip, zero_ip,
                    r.mac, Zeros(10), Zeros(64), Zeros(128),
                    be_u32([hi |-> 25474, lo |-> 21347]) >>
        options ==
            IF r.operation.tag = "Discover"
            THEN << <<53>>, <<1>>, <<1>>,
                    <<55>>, <<4>>, <<1>>, <<3>>, <<15>>, <<6>>,
                    <<255>> >>
            ELSE << <<53>>, <<1>>, <<3>>,
                    <<50>>, <<4>>, r.operation.ip,
                    <<54>>, <<4>>, r.operation.dhcp_server_ip,
                    <<255>> >>
    IN  push_all(push_all(p, fixed), options)

WriteOut_len(r) ==
    CASE r.kind = "Slice" -> Slice_len(r)
      [] r.kind = "Ethernet" -> EthernetPacket_len(r)
      [] r.kind = "Arp" -> ArpPacket_len(r)
      [] r.kind = "Ipv4" -> Ipv4Packet_len(r)
      [] r.kind = "Udp" -> UdpPacket_len(r)
      [] r.kind = "Icmp" -> IcmpPacket_len(r)
      [] r.kind = "Tcp" -> TcpPacket_len(r)
      [] r.kind = "Dhcp" -> DhcpPacket_len(r)

WriteOut_write_out(r, p) ==
    CASE r.kind = "Slice" -> Slice_write_out(r, p)
      [] r.kind = "Ethernet" -> EthernetPacket_write_out(r, p)
      [] r.kind = "Arp" -> ArpPacket_write_out(r, p)
      [] r.kind = "Ipv4" -> Ipv4Packet_write_out(r, p)
      [] r.kind = "Udp" -> UdpPacket_write_out(r, p)
      [] r.kind = "Icmp" -> IcmpPacket_write_out(r, p)
      [] r.kind = "Tcp" -> TcpPacket_write_out(r, p)
      [] r.kind = "Dhcp" -> DhcpPacket_write_out(r, p)

----------------------------------------------------------------------------
(* Parse (parse.rs, and the impl Parse of every codec).  A call returns     *)
(* Ok(record) or Err(ParseError), or it aborts: indexing a slice out of its *)
(* bounds panics.  Offsets count from 0 as in the source.                   *)

Ok(v) == [tag |-> "Ok", val |-> v]
Err(e) == [tag |-> "Err", err |-> e]
Panic == [tag |-> "Panic"]

\* ParseError
Unimplemented(msg) == [kind |-> "Unimplemented", msg |-> msg]
Malformed(msg) == [kind |-> "Malformed", msg |-> msg]
Truncated(len) == [kind |-> "Truncated", len |-> len]

\* &data[from..to] and &data[from..], for ranges that are in bounds
slice(data, from, to) == SubSeq(data, from + 1, to)
slice_from(data, from) == SubSeq(data, from + 1, Len(data))

\* a parsed payload that stays a &[u8] is the record Slices are made of
Slice(bytes) == [kind |-> "Slice", bytes |-> bytes]

\* NetworkEndian::read_u32, into the two halves
read_u32(bytes) == [hi |-> bytes[1] * 256 + bytes[2], lo |-> bytes[3] * 256 + bytes[4]]

\* shortest frame EthernetPacket::parse accepts (ethernet.rs:140)
MinFrameLen == 60

\* EthernetPacket::new (ethernet.rs:49-64)
EthernetPacket_new(src_addr, dst_addr, ether_type, data) ==
    [kind |-> "Ethernet",
     header |-> [src_addr |-> src_addr, dst_addr |-> dst_addr, ether_type |-> ether_type],
     payload |-> Slice(data)]

\* the match on the ether type number (ethernet.rs:146-150)
EtherType_from_number(n) ==
    CASE n = 2048 -> [tag |-> "Ipv4"]
      [] n = 2054 -> [tag |-> "Arp"]
      [] OTHER -> [tag |-> "Unknown", number |-> n]

\* EthernetPacket::parse accepting a frame only when it is longer than 60 bytes
EthernetPacket_parse_above_min(data) ==
    IF Len(data) <= MinFrameLen THEN Err(Truncated(Len(data)))
    ELSE LET dst_mac == slice(data, 0, 6)
             src_mac == slice(data, 6, 12)
             ether_type == EtherType_from_number(read_u16(slice(data, 12, 14)))
         IN  Ok(EthernetPacket_new(dst_mac, src_mac, ether_type, slice_from(data, 14)))

\* impl Parse for EthernetPacket<&[u8]> (ethernet.rs:136-154)
EthernetPacket_parse(data) ==
    IF Len(data) < MinFrameLen THEN Err(Truncated(Len(data)))
    ELSE LET dst_mac == slice(data, 0, 6)
             src_mac == slice(data, 6, 12)
             ether_type == EtherType_from_number(read_u16(slice(data, 12, 14)))
         IN  Ok(EthernetPacket_new(dst_mac, src_mac, ether_type, slice_from(data, 14)))

\* impl Parse for ArpPacket (arp.rs:84-99)
ArpPacket_parse(data) ==
    IF Len(data) < 8 THEN Panic
    ELSE LET op == read_u16(slice(data, 6, 8))
         IN  IF op \notin {1, 2}
             THEN Err(Malformed("invalid value in ARP operation field"))
             ELSE IF Len(data) < 28 THEN Panic
             ELSE Ok([kind |-> "Arp",
                      operation |-> IF op = 1 THEN "Request" ELSE "Response",
                      src_mac |-> slice(data, 8, 14),
                      dst_mac |-> slice(data, 18, 24),
                      src_ip |-> slice(data, 14, 18),
                      dst_ip |-> slice(data, 24, 28)])

\* impl Parse for IcmpPacket<&[u8]> (icmp.rs:98-117)
IcmpPacket_parse(data) ==
    IF Len(data) < 2 THEN Panic
    ELSE IF <<data[1], data[2]>> # <<8, 0>>
         THEN Err(Unimplemented("Unknown ICMP packet type"))
         ELSE IF Len(data) < 8 THEN Panic
         ELSE Ok([kind |-> "Icmp",
                  type_ |-> [tag |-> "EchoRequest",
                             id |-> read_u16(slice(data, 4, 6)),
                             sequence_number |-> read_u16(slice(data, 6, 8))],
                  data |-> slice_from(data, 8)])

\* IcmpPacket::echo_reply answering with the type of the packet it is given
echo_reply_same_type(self) ==
    Ok([kind |-> "Icmp", type_ |-> self.type_, data |-> self.data])

\* IcmpPacket::echo_reply (icmp.rs:20-36); the match aborts on any type
\* but EchoRequest
echo_reply(self) ==
    IF self.type_.tag = "EchoRequest"
    THEN Ok([kind |-> "Icmp",
             type_ |-> [tag |-> "EchoReply", id |-> self.type_.id,
                        sequence_number |-> self.type_.sequence_number],
             data |-> self.data])
    ELSE Panic

\* fn parse_message_type_tag of DhcpPacket::parse (dhcp.rs:148-158)
RECURSIVE parse_message_type_tag(_)
parse_message_type_tag(data) ==
    IF Len(data) < 2 THEN Panic
    ELSE LET code == data[1]
             len == data[2]
         IN  IF code = 53 /\ len = 1
             THEN IF Len(data) < 3 THEN Panic ELSE Ok(data[3])
             ELSE IF 2 + len > Len(data) THEN Panic
                  ELSE parse_message_type_tag(slice_from(data, 2 + len))

\* impl Parse for DhcpPacket (dhcp.rs:144-189)
DhcpPacket_parse(data) ==
    IF Len(data) < 240 THEN Panic
    ELSE LET t == parse_message_type_tag(slice_from(data, 240))
             packet(operation) ==
                 Ok([kind |-> "Dhcp", mac |-> slice(data, 28, 34),
                     transaction_id |-> read_u32(slice(data, 4, 8)),
                     operation |-> operation])
         IN  IF t.tag # "Ok" THEN t
             ELSE CASE t.val = 1 -> Err(Unimplemented("dhcp discover"))
                    [] t.val = 2 -> packet([tag |-> "Offer", ip |-> slice(data, 16, 20),
                                            dhcp_server_ip |-> slice(data, 20, 24)])
                    [] t.val = 3 -> Err(Unimplemented("dhcp request"))
                    [] t.val = 5 -> packet([tag |-> "Ack", ip |-> slice(data, 16, 20)])
                    [] OTHER -> Err(Unimplemented("unknown dhcp message type"))

\* impl Parse for UdpPacket<&[u8]> (udp.rs:72-82)
UdpPacket_parse(data) ==
    IF Len(data) < 8 THEN Panic
    ELSE Ok([kind |-> "Udp",
             header |-> [src_port |-> read_u16(slice(data, 0, 2)),
                         dst_port |-> read_u16(slice(data, 2, 4))],
             payload |-> Slice(slice_from(data, 8))])

\* impl Parse for UdpPacket<UdpKind> (udp.rs:90-108); UdpKind::Dhcp holds
\* the DhcpPacket and UdpKind::Unknown the bytes
UdpPacket_parse_typed(data) ==
    LET udp == UdpPacket_parse(data)
    IN  IF udp.tag # "Ok" THEN udp
        ELSE LET src_dst == <<udp.val.header.src_port, udp.val.header.dst_port>>
             IN  IF src_dst = <<67, 68>> \/ src_dst = <<68, 67>>
                 THEN LET dhcp == DhcpPacket_parse(udp.val.payload.bytes)
                      IN  IF dhcp.tag # "Ok" THEN dhcp
                          ELSE Ok([udp.val EXCEPT !.payload = dhcp.val])
                 ELSE udp

\* IpProtocol::from_number
IpProtocol_from_number(number) ==
    CASE number = 1 -> [tag |-> "Icmp"]
      [] number = 6 -> [tag |-> "Tcp"]
      [] number = 17 -> [tag |-> "Udp"]
      [] OTHER -> [tag |-> "Unknown", number |-> number]

\* impl Parse for Ipv4Packet<&[u8]> (ipv4.rs:175-186)
Ipv4Packet_parse(data) ==
    IF Len(data) < 20 THEN Panic
    ELSE Ok([kind |-> "Ipv4",
             header |-> [src_addr |-> slice(data, 12, 16),
                         dst_addr |-> slice(data, 16, 20),
                         protocol |-> IpProtocol_from_number(data[10])],
             payload |-> Slice(slice_from(data, 20))])

\* impl Parse for Ipv4Packet<Ipv4Kind> (ipv4.rs:195-222); Ipv4Kind::Udp and
\* Ipv4Kind::Icmp hold the packet, Ipv4Kind::Unknown the number and the bytes
Ipv4Packet_parse_typed(data) ==
    LET ip == Ipv4Packet_parse(data)
    IN  IF ip.tag # "Ok" THEN ip
        ELSE CASE ip.val.header.protocol.tag = "Udp" ->
                    LET udp == UdpPacket_parse_typed(ip.val.payload.bytes)
                    IN  IF udp.tag # "Ok" THEN udp
                        ELSE Ok([ip.val EXCEPT !.payload = udp.val])
               [] ip.val.header.protocol.tag = "Icmp" ->
                    LET icmp == IcmpPacket_parse(ip.val.payload.bytes)
                    IN  IF icmp.tag # "Ok" THEN icmp
                        ELSE Ok([ip.val EXCEPT !.payload = icmp.val])
               [] ip.val.header.protocol.tag = "Unknown" ->
                    Ok([ip.val EXCEPT !.payload =
                          [kind |-> "Unknown",
                           number |-> ip.val.header.protocol.number,
                           bytes |-> ip.val.payload.bytes]])
               [] OTHER -> Err(Unimplemented("unimplemented ip protocol"))

\* impl Parse for EthernetPacket<EthernetKind> (ethernet.rs:163-184);
\* EthernetKind::Ipv4 and EthernetKind::Arp hold the packet
EthernetPacket_parse_typed(data) ==
    LET ethernet == EthernetPacket_parse(data)
    IN  IF ethernet.tag # "Ok" THEN ethernet
        ELSE CASE ethernet.val.header.ether_type.tag = "Ipv4" ->
                    LET ipv4 == Ipv4Packet_parse_typed(ethernet.val.payload.bytes)
                    IN  IF ipv4.tag # "Ok" THEN ipv4
                        ELSE Ok([ethernet.val EXCEPT !.payload = ipv4.val])
               [] ethernet.val.header.ether_type.tag = "Arp" ->
                    LET arp == ArpPacket_parse(ethernet.val.payload.bytes)
                    IN  IF arp.tag # "Ok" THEN arp
                        ELSE Ok([ethernet.val EXCEPT !.payload = arp.val])
               [] OTHER ->
                    Err(Unimplemented("only ipv4 parsing is supported at the moment"))

\* parse::parse (parse.rs:14-16)
parse(data) == EthernetPacket_parse_typed(data)

----------------------------------------------------------------------------
(* The typed records that are written *)

\* longest opaque payload of a written record
MaxData == 2

Macs == { <<0, 8, 220, 171, 205, 239>>, <<255, 255, 255, 255, 255, 255>> }

Ips == { <<0, 0, 0, 0>>, <<141, 52, 46, 46>>, <<255, 255, 255, 255>> }

Slices == { [kind |-> "Slice", bytes |-> Bytes(n)] : n \in 0..MaxData }

ArpPackets ==
    { [kind |-> "Arp", operation |-> op,
       src_mac |-> <<0, 8, 220, 171, 205, 239>>, dst_mac |-> m,
       src_ip |-> <<141, 52, 46, 46>>, dst_ip |-> <<141, 52, 46, 162>>] :
         op \in {"Request", "Response"}, m \in Macs }

DhcpPackets ==
    { [kind |-> "Dhcp", mac |-> m,
       transaction_id |-> x, operation |-> o] :
         m \in Macs,
         x \in { [hi |-> 4660, lo |-> 22136], [hi |-> 51966, lo |-> 47806] },
         o \in { [tag |-> "Discover"],
                 [tag |-> "Request", ip |-> <<141, 52, 46, 201>>,
                  dhcp_server_ip |-> <<141, 52, 46, 13>>] } }

IcmpPackets ==
    { [kind |-> "Icmp", type_ |-> [tag |-> t, id |-> 4660, sequence_number |-> 1],
       data |-> Bytes(n)] :
         t \in {"EchoRequest", "EchoReply"}, n \in 0..MaxData }

UdpPackets ==
    { [kind |-> "Udp", header |-> [src_port |-> pp[1], dst_port |-> pp[2]],
       payload |-> x] :
         pp \in { <<68, 67>>, <<53, 57529>> }, x \in Slices \cup DhcpPackets }

TcpPackets ==
    { [kind |-> "Tcp",
       header |-> [src_port |-> 80, dst_port |-> 40000,
                   sequence_number |-> u32(74565), ack_number |-> U32Max,
                   options |-> o, window_size |-> 1000],
       payload |-> x] :
         o \in {new_ack, new_syn_ack}, x \in Slices }

\* the longest payload of a UDP datagram in an IPv4 packet, whose total
\* length is a u16 (ipv4.rs:115)
MaxUdpPayloadLen == 65535 - 20 - 8

\* a UDP datagram of the greatest length
LongestUdpPacket ==
    [kind |-> "Udp", header |-> [src_port |-> 53, dst_port |-> 57529],
     payload |-> [kind |-> "Slice",
                  bytes |-> SubSeq([i \in 1..MaxUdpPayloadLen |-> (7 * i) % 256],
                                   1, MaxUdpPayloadLen)]]

\* an empty datagram between addresses and ports whose 16-bit words add up
\* to 0xffff, in the pseudo header and in the UDP header
AllOnesUdpPacket ==
    [kind |-> "Ipv4",
     header |-> [src_addr |-> <<0, 0, 0, 0>>, dst_addr |-> <<255, 230, 0, 0>>,
                 protocol |-> [tag |-> "Udp"]],
     payload |-> [kind |-> "Udp", header |-> [src_port |-> 32768, dst_port |-> 32759],
                  payload |-> [kind |-> "Slice", bytes |-> <<>>]]]

Ipv4Packets ==
    { AllOnesUdpPacket,
      [kind |-> "Ipv4",
       header |-> [src_addr |-> <<141, 52, 46, 46>>, dst_addr |-> <<141, 52, 46, 162>>,
                   protocol |-> [tag |-> "Udp"]],
       payload |-> LongestUdpPacket] }
    \cup
    { [kind |-> "Ipv4",
       header |-> [src_addr |-> <<141, 52, 46, 46>>, dst_addr |-> d,
                   protocol |-> [tag |-> "Udp"]],
       payload |-> x] : d \in Ips, x \in UdpPackets }
    \cup
    { [kind |-> "Ipv4",
       header |-> [src_addr |-> <<141, 52, 46, 46>>, dst_addr |-> <<255, 255, 255, 255>>,
                   protocol |-> [tag |-> "Icmp"]],
       payload |-> x] : x \in IcmpPackets }
    \cup
    { [kind |-> "Ipv4",
       header |-> [src_addr |-> <<141, 52, 46, 46>>, dst_addr |-> <<255, 255, 255, 255>>,
                   protocol |-> [tag |-> "Tcp"]],
       payload |-> x] : x \in TcpPackets \cup Slices }

EthernetPackets ==
    { [kind |-> "Ethernet",
       header |-> [src_addr |-> <<0, 8, 220, 171, 205, 239>>,
                   dst_addr |-> <<255, 255, 255, 255, 255, 255>>,
                   ether_type |-> [tag |-> "Ipv4"]],
       payload |-> x] : x \in Ipv4Packets }
    \cup
    { [kind |-> "Ethernet",
       header |-> [src_addr |-> <<0, 8, 220, 171, 205, 239>>,
                   dst_addr |-> <<255, 255, 255, 255, 255, 255>>,
                   ether_type |-> [tag |-> "Arp"]],
       payload |-> x] : x \in ArpPackets }
    \cup
    { [kind |-> "Ethernet",
       header |-> [src_addr |-> <<0, 8, 220, 171, 205, 239>>,
                   dst_addr |-> <<255, 255, 255, 255, 255, 255>>,
                   ether_type |-> [tag |-> "Unknown", number |-> 34525]],
       payload |-> x] : x \in Slices }

Records == Slices \cup ArpPackets \cup DhcpPackets \cup IcmpPackets \cup UdpPackets
           \cup TcpPackets \cup Ipv4Packets \cup EthernetPackets

\* capacities a caller allocates: the length of a record, or one byte less
Capacities == { WriteOut_len(r) : r \in Records }
              \cup { WriteOut_len(r) - 1 : r \in Records \ {[kind |-> "Slice", bytes |-> <<>>]} }

----------------------------------------------------------------------------
(* Spec: one connection, any sequence of delivered segments *)

B2N(b) == IF b THEN 1 ELSE 0

\* no TxPacket method has been called on the packet yet
NoCall == [op |-> "none", value |-> <<>>, pre |-> <<>>, ret |-> None]

Init ==
    /\ \E id \in ConnIds : conn = TcpConnection_new(id)
    /\ pre = conn
    /\ pkt = None
    /\ reply = None
    /\ called = <<>>
    /\ cb_ret = None
    /\ panicked = FALSE
    /\ calls = 0
    /\ emitted_syn = 0
    /\ emitted_fin = 0
    /\ emitted_len = 0
    /\ delivered = [on |-> TRUE, pkts |-> <<>>]
    /\ accepted = None
    /\ tx = HeapTxPacket_new(0)
    /\ rec = None
    /\ wres = "none"
    /\ bcall = NoCall
    /\ frame = <<>>
    /\ sent = None
    /\ parsed = None

\* what identifies a data segment in the stream: where it starts and what it
\* carries (the Established arm reads no flag of a segment that has a payload
\* and no FIN, tcp.rs:169-199)
Segment(packet) ==
    [sequence_number |-> packet.header.sequence_number, payload |-> packet.payload]

\* the call takes the first branch of the sequence check of the Established
\* arm (tcp.rs:170-171) with a payload: rcv_ack moves over the segment
AcceptsData(c, packet) ==
    /\ c.state = "Established"
    /\ ~fin(packet.header.options)
    /\ packet.header.sequence_number = c.ack_number
    /\ packet.payload # <<>>

\* the callback's return value is drawn only in the calls that invoke it
Invokes(c, packet) == handle_packet(c, packet, None).called # <<>>

\* conn.handle_packet(&packet, f), called by the owner of the connection
HandlePacket ==
    /\ ~pkt.some
    /\ ~panicked
    /\ calls < MaxCalls
    /\ \E packet \in Packets(conn) :
       \E f \in IF Invokes(conn, packet) THEN CallbackReturns ELSE {None} :
         LET r == handle_packet(conn, packet, f)
         IN  /\ conn' = r.conn
             /\ reply' = r.ret
             /\ called' = r.called
             /\ panicked' = r.panic
             /\ cb_ret' = IF r.called = <<>> THEN None ELSE f
             /\ pkt' = Some(packet)
             /\ emitted_syn' = emitted_syn + B2N(r.ret.some /\ syn(r.ret.val.header.options))
             /\ emitted_fin' = emitted_fin + B2N(r.ret.some /\ fin(r.ret.val.header.options))
             /\ emitted_len' = emitted_len + (IF r.ret.some THEN Len(r.ret.val.payload) ELSE 0)
             /\ delivered' = Deliver(delivered, conn, packet)
             /\ accepted' = IF AcceptsData(conn, packet)
                            THEN Some(Segment(packet))
                            ELSE accepted
    /\ pre' = conn
    /\ calls' = calls + 1
    /\ UNCHANGED <<codecVars, builderVars, parseVars>>

\* the call has returned: its caller takes the Option<TcpPacket> it was
\* given (to wrap and transmit it) and drops the packet it had parsed
TakeReply ==
    /\ pkt.some
    /\ ~panicked
    /\ pkt' = None
    /\ reply' = None
    /\ called' = <<>>
    /\ cb_ret' = None
    /\ pre' = conn
    /\ UNCHANGED <<conn, panicked, calls, emitted_syn, emitted_fin, emitted_len,
                   delivered, accepted>>
    /\ UNCHANGED <<codecVars, builderVars, parseVars>>

Next == HandlePacket \/ TakeReply

Spec == Init /\ [][Next]_vars

----------------------------------------------------------------------------
(* CodecSpec: packets are allocated and typed records written to them *)

\* HeapTxPacket::new(max_len)
HeapTxPacketNew ==
    /\ \E c \in Capacities : tx' = HeapTxPacket_new(c)
    /\ rec' = None
    /\ wres' = "none"
    /\ UNCHANGED <<tcpVars, builderVars, parseVars>>

\* r.write_out(&mut packet) on a packet that was just allocated
WriteOut ==
    /\ wres = "none"
    /\ \E r \in Records :
         LET p == WriteOut_write_out(r, tx)
         IN  /\ tx' = p
             /\ rec' = Some(r)
             /\ wres' = IF p.panic THEN "panic" ELSE IF p.err THEN "err" ELSE "ok"
    /\ UNCHANGED <<tcpVars, builderVars, parseVars>>

CodecNext == HeapTxPacketNew \/ WriteOut

CodecSpec == Init /\ [][CodecNext]_vars

----------------------------------------------------------------------------
(* BuilderSpec: the TxPacket methods called one by one on a HeapTxPacket.   *)
(* The caller sees each Result and goes on calling, so the packet a call    *)
(* starts from is the Vec as the previous call left it.                     *)

\* largest capacity of the packet whose methods are called one by one
MaxCap == 4

\* Result<usize, ()> of HeapTxPacket::push_bytes (lib.rs:151-158)
push_bytes_ret(p, bytes) ==
    IF p.cap - Len(p.data) < Len(bytes) THEN None ELSE Some(Len(p.data))

\* the Vec of the packet, whatever the last call returned
Vec(p) == [p EXCEPT !.err = FALSE]

U16Values == {258, 65535}

U32Values == {[hi |-> 258, lo |-> 772], U32Max}

\* HeapTxPacket::new(max_len) for a small max_len
BuilderNew ==
    /\ \E c \in 0..MaxCap : tx' = HeapTxPacket_new(c)
    /\ bcall' = NoCall
    /\ rec' = None
    /\ wres' = "none"
    /\ UNCHANGED <<tcpVars, parseVars>>

\* one call of a pushing method: op names it, value is its argument and
\* bytes what it hands to push_bytes
Push(op, value, bytes) ==
    /\ ~tx.panic
    /\ tx' = push_bytes(Vec(tx), bytes)
    /\ bcall' = [op |-> op, value |-> value, pre |-> tx.data,
                 ret |-> push_bytes_ret(Vec(tx), bytes)]
    /\ UNCHANGED <<rec, wres, tcpVars, parseVars>>

\* packet.push_byte(value)
PushByte == \E value \in {7, 255} : Push("push_byte", value, <<value>>)

\* packet.push_u16(value)
PushU16 == \E value \in U16Values : Push("push_u16", value, be_u16(value))

\* packet.push_u32(value)
PushU32 == \E value \in U32Values : Push("push_u32", value, be_u32(value))

\* packet.push_bytes(bytes)
PushBytes == \E n \in 0..3 : Push("push_bytes", Bytes(n), Bytes(n))

\* packet.set_u16(index, value)
SetU16 ==
    /\ ~tx.panic
    /\ \E index \in 0..MaxCap, value \in U16Values :
         /\ tx' = set_u16(Vec(tx), index, value)
         /\ bcall' = [op |-> "set_u16", value |-> <<index, value>>, pre |-> tx.data,
                      ret |-> None]
    /\ UNCHANGED <<rec, wres, tcpVars, parseVars>>

BuilderNext == BuilderNew \/ PushByte \/ PushU16 \/ PushU32 \/ PushBytes \/ SetU16

BuilderSpec == Init /\ [][BuilderNext]_vars

----------------------------------------------------------------------------
(* ParseSpec: frames are written by a sender or arrive as raw bytes, and    *)
(* are handed to the raw Ethernet parser or to parse::parse.                *)

\* HeapTxPacket::write_out (lib.rs:138-142)
HeapTxPacket_write_out(packet) ==
    WriteOut_write_out(packet, HeapTxPacket_new(WriteOut_len(packet)))

\* payload lengths around the one that makes an IPv4 + UDP or ICMP frame
\* as long as the shortest accepted frame
PadLens == { MinFrameLen - (14 + 20 + 8) + d : d \in {-1, 0, 1} }

Ethernet(src, dst, t, x) ==
    [kind |-> "Ethernet",
     header |-> [src_addr |-> src, dst_addr |-> dst, ether_type |-> [tag |-> t]],
     payload |-> x]

Ipv4(src, dst, protocol, x) ==
    [kind |-> "Ipv4",
     header |-> [src_addr |-> src, dst_addr |-> dst, protocol |-> protocol],
     payload |-> x]

Udp(src_port, dst_port, x) ==
    [kind |-> "Udp", header |-> [src_port |-> src_port, dst_port |-> dst_port],
     payload |-> x]

\* the address pairs of the frames: distinct addresses, and equal ones
MacPairs == { <<<<0, 8, 220, 171, 205, 239>>, <<255, 255, 255, 255, 255, 255>>>>,
              <<<<0, 8, 220, 171, 205, 239>>, <<0, 8, 220, 171, 205, 239>>>> }

\* Ethernet + ARP
ArpFrames ==
    { Ethernet(mm[1], mm[2], "Arp", x) : mm \in MacPairs, x \in ArpPackets }

\* Ethernet + IPv4 + UDP with an opaque payload
UdpFrames ==
    { Ethernet(mm[1], mm[2], "Ipv4",
               Ipv4(<<141, 52, 46, 46>>, <<141, 52, 46, 162>>, [tag |-> "Udp"],
                    Udp(pp[1], pp[2], Slice(Bytes(n))))) :
        mm \in MacPairs, pp \in { <<53, 57529>>, <<68, 67>> }, n \in {0} \cup PadLens }

\* Ethernet + IPv4 + ICMP echo request
EchoFrames ==
    { Ethernet(mm[1], mm[2], "Ipv4",
               Ipv4(<<141, 52, 46, 46>>, <<141, 52, 46, 162>>, [tag |-> "Icmp"],
                    [kind |-> "Icmp",
                     type_ |-> [tag |-> "EchoRequest", id |-> 4660, sequence_number |-> 1],
                     data |-> Bytes(n)])) :
        mm \in MacPairs, n \in {0} \cup PadLens }

\* the first 240 bytes of a DHCP message, as a server fills them
DhcpFixed ==
    <<2, 1, 6, 0>> \o <<18, 52, 86, 120>> \o Zeros(8) \o <<141, 52, 46, 201>>
    \o <<141, 52, 46, 13>> \o Zeros(4) \o <<0, 8, 220, 171, 205, 239>> \o Zeros(10)
    \o Zeros(192) \o <<99, 130, 83, 99>>

\* option areas of a DHCP message: none, without option 53 (ended by 255,
\* padded with 0, cut inside an option), with an option 53 that is cut or
\* has a wrong length, and with option 53 for each message type
DhcpOptionAreas ==
    { <<>>, <<255>>, <<0, 0, 0>>, <<12, 4, 1>>, <<1, 4, 255, 255, 255, 0, 255>>,
      <<53, 1>>, <<53, 2, 1, 1, 255>>,
      <<53, 1, 1, 255>>, <<53, 1, 2, 255>>, <<53, 1, 3, 255>>, <<53, 1, 5, 255>>,
      <<53, 1, 9, 255>>, <<12, 1, 65, 53, 1, 2, 255>> }

\* UDP payloads on the DHCP ports: shorter than the fixed part, and the
\* fixed part followed by an option area
DhcpPayloads ==
    { SubSeq(DhcpFixed, 1, n) : n \in {0, MinFrameLen - (14 + 20 + 8), 239} }
    \cup { DhcpFixed \o o : o \in DhcpOptionAreas }

\* Ethernet + IPv4 + UDP on the DHCP ports, from a server and from a client
DhcpFrames ==
    { Ethernet(<<0, 8, 220, 171, 205, 239>>, <<255, 255, 255, 255, 255, 255>>, "Ipv4",
               Ipv4(<<141, 52, 46, 13>>, <<255, 255, 255, 255>>, [tag |-> "Udp"],
                    Udp(pp[1], pp[2], Slice(x)))) :
        pp \in { <<67, 68>>, <<68, 67>> }, x \in DhcpPayloads }
    \cup
    { Ethernet(<<0, 8, 220, 171, 205, 239>>, <<255, 255, 255, 255, 255, 255>>, "Ipv4",
               Ipv4(<<0, 0, 0, 0>>, <<255, 255, 255, 255>>, [tag |-> "Udp"],
                    Udp(68, 67, x))) : x \in DhcpPackets }

\* Ethernet + IPv4 with other payloads: an ICMP echo reply, a TCP segment,
\* and protocols without a codec
OtherIpv4Frames ==
    { Ethernet(<<0, 8, 220, 171, 205, 239>>, <<255, 255, 255, 255, 255, 255>>, "Ipv4",
               Ipv4(<<141, 52, 46, 46>>, <<141, 52, 46, 162>>, pr[1], pr[2])) :
        pr \in { <<[tag |-> "Icmp"],
                   [kind |-> "Icmp",
                    type_ |-> [tag |-> "EchoReply", id |-> 4660, sequence_number |-> 1],
                    data |-> Bytes(MinFrameLen - (14 + 20 + 8))]>> }
           \cup { <<[tag |-> "Tcp"],
                    [kind |-> "Tcp",
                     header |-> [src_port |-> 80, dst_port |-> 40000,
                                 sequence_number |-> u32(74565), ack_number |-> U32Max,
                                 options |-> new_ack, window_size |-> 1000],
                     payload |-> Slice(Bytes(n))]>> : n \in {6, 7} }
           \cup { <<[tag |-> "Unknown", number |-> k], Slice(Bytes(26))>> : k \in {0, 47, 255} } }

\* the records a sender writes
SentPackets == ArpFrames \cup UdpFrames \cup EchoFrames \cup DhcpFrames \cup OtherIpv4Frames

\* a frame with one byte replaced; index counts from 0
Corrupt(data, index, byte) ==
    SubSeq(data, 1, index) \o <<byte>> \o SubSeq(data, index + 2, Len(data))

\* a byte of the ARP header (the frame's bytes from 14 on, as
\* ArpPacket::write_out lays them out) that differs from what write_out
\* writes: hardware type 2, protocol type 0x86dd, hardware size 8, protocol
\* size 16, and the operations 0, 3 and 0x0101
ArpFaults ==
    { <<14 + 1, 2>>, <<14 + 2, 134>>, <<14 + 4, 8>>, <<14 + 5, 16>>,
      <<14 + 7, 0>>, <<14 + 7, 3>>, <<14 + 6, 1>> }

\* ARP frames padded to the shortest frame, with one such byte
FaultyArpFrames ==
    { Corrupt(HeapTxPacket_write_out(r).data \o Zeros(MinFrameLen - 42), ib[1], ib[2]) :
        r \in ArpFrames, ib \in ArpFaults }

\* bytes that are no written frame: zeros, an ARP frame padded with zeros by
\* the link up to one byte less than, and to, the shortest frame, and padded
\* ARP frames with a byte that write_out does not write
RawFrames ==
    { Zeros(n) : n \in {0, 1, 14, MinFrameLen - 1, MinFrameLen, MinFrameLen + 1} }
    \cup { HeapTxPacket_write_out(r).data \o Zeros(n) :
             r \in ArpFrames, n \in {MinFrameLen - 42 - 1, MinFrameLen - 42} }
    \cup FaultyArpFrames

\* each record with the bytes HeapTxPacket::write_out makes of it
WrittenFrames ==
    { [record |-> r, bytes |-> HeapTxPacket_write_out(r).data] : r \in SentPackets }

\* a sender writes a record with HeapTxPacket::write_out; its bytes arrive
Transmit ==
    /\ \E w \in WrittenFrames :
         /\ frame' = w.bytes
         /\ sent' = Some(w.record)
    /\ parsed' = None
    /\ UNCHANGED <<tcpVars, codecVars, builderVars>>

\* other bytes arrive
Receive ==
    /\ \E data \in RawFrames : frame' = data
    /\ sent' = None
    /\ parsed' = None
    /\ UNCHANGED <<tcpVars, codecVars, builderVars>>

\* EthernetPacket::<&[u8]>::parse(&frame)
ParseRaw ==
    /\ ~parsed.some
    /\ parsed' = Some([parser |-> "raw", res |-> EthernetPacket_parse(frame)])
    /\ UNCHANGED <<frame, sent, tcpVars, codecVars, builderVars>>

\* parse::parse(&frame)
ParseTyped ==
    /\ ~parsed.some
    /\ parsed' = Some([parser |-> "typed", res |-> parse(frame)])
    /\ UNCHANGED <<frame, sent, tcpVars, codecVars, builderVars>>

ParseNext == Transmit \/ Receive \/ ParseRaw \/ ParseTyped

ParseSpec == Init /\ [][ParseNext]_vars

----------------------------------------------------------------------------
(* IcmpSpec: ICMP packets are written, the bytes parsed with                *)
(* IcmpPacket::parse, and echo_reply called on the parsed packet or on the  *)
(* packet the caller built; the reply is written to a packet of its len().  *)

\* the ICMP packets a caller builds
EchoPackets ==
    { [kind |-> "Icmp", type_ |-> [tag |-> t, id |-> id, sequence_number |-> n],
       data |-> Bytes(k)] :
         t \in {"EchoRequest", "EchoReply"}, id \in {0, 4660, 65535},
         n \in {0, 1, 65535}, k \in 0..MaxData }

\* q is written with HeapTxPacket::new(q.len()) and q.write_out
IcmpWrite ==
    /\ \E q \in EchoPackets :
         /\ sent' = Some(q)
         /\ frame' = HeapTxPacket_write_out(q).data
    /\ parsed' = None
    /\ rec' = None
    /\ wres' = "none"
    /\ tx' = HeapTxPacket_new(0)
    /\ UNCHANGED <<tcpVars, builderVars>>

\* IcmpPacket::parse(&bytes)
IcmpParse ==
    /\ sent.some
    /\ ~parsed.some
    /\ wres = "none"
    /\ parsed' = Some([parser |-> "icmp", res |-> IcmpPacket_parse(frame)])
    /\ UNCHANGED <<frame, sent, tcpVars, codecVars, builderVars>>

\* self.echo_reply(), and the reply written to a new packet
Reply(self) ==
    LET answer == echo_reply(self)
    IN  IF answer.tag = "Panic"
        THEN /\ wres' = "panic"
             /\ UNCHANGED <<tx, rec>>
        ELSE LET p == HeapTxPacket_write_out(answer.val)
             IN  /\ tx' = p
                 /\ rec' = Some(answer.val)
                 /\ wres' = IF p.panic THEN "panic" ELSE IF p.err THEN "err" ELSE "ok"

\* echo_reply called on the packet that IcmpPacket::parse returned
EchoReplyOfParsed ==
    /\ parsed.some
    /\ parsed.val.res.tag = "Ok"
    /\ wres = "none"
    /\ Reply(parsed.val.res.val)
    /\ UNCHANGED <<frame, sent, parsed, tcpVars, builderVars>>

\* echo_reply called on the packet the caller built
EchoReplyOfSent ==
    /\ sent.some
    /\ ~parsed.some
    /\ wres = "none"
    /\ Reply(sent.val)
    /\ UNCHANGED <<frame, sent, parsed, tcpVars, builderVars>>

IcmpNext == IcmpWrite \/ IcmpParse \/ EchoReplyOfParsed \/ EchoReplyOfSent

IcmpSpec == Init /\ [][IcmpNext]_vars

----------------------------------------------------------------------------
(* Properties of the TCP endpoint, checked under Spec *)

\* the last call, its packet and what it returned
Handled == pkt.some
InSeq == pkt.val.header.sequence_number
InFlags == pkt.val.header.options.flags
InPayload == pkt.val.payload
Out == reply.val.header

\* C1: three-way handshake. A fresh connection that handles SYN{seq = x}
\* returns SYN+ACK{seq = 0x12345, ack = x+1, window = 1000} and is in
\* SynReceived; handling an ACK next returns nothing and leaves it
\* Established with snd_seq = 0x12346 and rcv_ack = x+1.
C1_Handshake ==
    /\ (Handled /\ delivered.on /\ Len(delivered.pkts) = 1) =>
          /\ ~panicked
          /\ reply.some
          /\ Out.options.flags = SYN + ACK
          /\ Out.sequence_number = u32(74565)
          /\ Out.ack_number = wrapping_add(delivered.pkts[1].header.sequence_number, u32(1))
          /\ Out.window_size = 1000
          /\ conn.state = "SynReceived"
    /\ (Handled /\ delivered.on /\ Len(delivered.pkts) = 2) =>
          /\ ~panicked
          /\ reply = None
          /\ conn.state = "Established"
          /\ conn.sequence_number = u32(74566)
          /\ conn.ack_number = wrapping_add(delivered.pkts[1].header.sequence_number, u32(1))

\* the handshake is complete and the peer's x+1 wrapped to 0
C1_Witness ==
    /\ Handled
    /\ delivered.on /\ Len(delivered.pkts) = 2
    /\ delivered.pkts[1].header.sequence_number = U32Max
    /\ conn.ack_number = u32(0)

\* C2: send-sequence accounting. Unless a call aborted, snd_seq is its
\* initial value plus the emitted SYNs, the emitted FINs and the emitted
\* payload bytes, modulo 2^32.
C2_SendAccounting ==
    ~panicked =>
        conn.sequence_number =
            wrapping_add(u32(74565), u32(emitted_syn + emitted_fin + emitted_len))

\* a SYN (retransmitted once), data and a FIN have all been answered
C2_Witness ==
    /\ ~panicked
    /\ emitted_syn = 2 /\ emitted_fin = 1 /\ emitted_len > 0

\* C3: receive-sequence accounting. rcv_ack becomes seg.seq+1 when a SYN is
\* accepted, advances by the payload length of an in-order data segment and
\* by 1 when a FIN is handled in Established, so that the stored rcv_ack is
\* the ack number of the emitted ACK|FIN.
C3_ReceiveAccounting ==
    (Handled /\ ~panicked) =>
        /\ (pre.state \in {"Listen", "SynReceived"} /\ syn(pkt.val.header.options)) =>
              conn.ack_number = wrapping_add(InSeq, u32(1))
        /\ (pre.state = "Established" /\ ~fin(pkt.val.header.options)
               /\ InSeq = pre.ack_number) =>
              conn.ack_number = wrapping_add(pre.ack_number, u32(Len(InPayload)))
        /\ (pre.state = "Established" /\ fin(pkt.val.header.options)
               /\ InSeq = pre.ack_number) =>
              /\ reply.some
              /\ conn.ack_number = wrapping_add(pre.ack_number, u32(1))
              /\ conn.ack_number = Out.ack_number

\* C4: data exchange. An in-order segment without FIN and with n > 0
\* payload bytes, handled in Established, advances rcv_ack by n and is given
\* to the callback; the reply is an ACK with seq = the old snd_seq and ack =
\* the new rcv_ack, carrying the callback's bytes (snd_seq advances by their
\* number) or nothing (snd_seq unchanged); the state stays Established.
C4_DataExchange ==
    (/\ Handled /\ pre.state = "Established"
     /\ InSeq = pre.ack_number
     /\ ~fin(pkt.val.header.options)
     /\ Len(InPayload) > 0) =>
        /\ ~panicked
        /\ conn.ack_number = wrapping_add(pre.ack_number, u32(Len(InPayload)))
        /\ called = <<InPayload>>
        /\ conn.state = "Established"
        /\ reply.some
        /\ Out.options.flags = ACK
        /\ Out.sequence_number = pre.sequence_number
        /\ Out.ack_number = conn.ack_number
        /\ cb_ret.some =>
              /\ reply.val.payload = cb_ret.val
              /\ conn.sequence_number =
                    wrapping_add(pre.sequence_number, u32(Len(cb_ret.val)))
        /\ ~cb_ret.some =>
              /\ reply.val.payload = <<>>
              /\ conn.sequence_number = pre.sequence_number

\* two bytes were accepted in order and the callback answered with two bytes
C4_Witness ==
    /\ Handled /\ pre.state = "Established"
    /\ InSeq = pre.ack_number
    /\ ~fin(pkt.val.header.options)
    /\ Len(InPayload) = 2
    /\ cb_ret.some /\ Len(cb_ret.val) = 2
    /\ reply.some

\* C5: close. An in-order FIN+ACK{seq = s} handled in Established returns
\* exactly ACK|FIN with seq = the old snd_seq and ack = s+1, moves to LastAck
\* and advances snd_seq by 1; an ACK handled in LastAck returns nothing and
\* moves to Closed; so SYN, ACK, FIN+ACK, ACK drive a fresh connection to
\* Closed.
C5_Close ==
    /\ (/\ Handled /\ pre.state = "Established"
        /\ InFlags = FIN + ACK /\ InSeq = pre.ack_number) =>
          /\ ~panicked
          /\ reply.some
          /\ Out.options.flags = ACK + FIN
          /\ Out.sequence_number = pre.sequence_number
          /\ Out.ack_number = wrapping_add(InSeq, u32(1))
          /\ conn.state = "LastAck"
          /\ conn.sequence_number = wrapping_add(pre.sequence_number, u32(1))
    /\ (Handled /\ pre.state = "LastAck" /\ InFlags = ACK) =>
          /\ ~panicked
          /\ reply = None
          /\ conn.state = "Closed"
    /\ (delivered.on /\ Len(delivered.pkts) = Len(Script)) =>
          conn.state = "Closed"

\* the four segments of the scenario have been delivered
C5_Witness ==
    /\ Handled
    /\ delivered.on /\ Len(delivered.pkts) = Len(Script)
    /\ pre.state = "LastAck"

\* the flags on which the states other than Established act, as the
\* transition table gives them
ExactMatch(st, fl) ==
    \/ st \in {"Listen", "SynReceived"} /\ fl = SYN
    \/ st \in {"SynReceived", "LastAck"} /\ fl = ACK

\* C6: outside Established only exact flag matches act. Any other flag
\* combination handled in Listen, SynReceived or LastAck is dropped: nothing
\* is returned, the connection is unchanged and the call does not abort.
C6_ExactFlagMatch ==
    (/\ Handled /\ pre.state \in {"Listen", "SynReceived", "LastAck"}
     /\ ~ExactMatch(pre.state, InFlags)) =>
        /\ ~panicked
        /\ reply = None
        /\ conn = pre

\* C7: a segment with RST set, handled in Established, is dropped: nothing
\* is returned, the callback is not invoked, the connection is unchanged.
C7_RstDropped ==
    (Handled /\ pre.state = "Established" /\ rst(pkt.val.header.options)) =>
        /\ ~panicked
        /\ reply = None
        /\ called = <<>>
        /\ conn = pre

\* C8: every returned segment has the connection's ports swapped, the
\* connection's window and a header length of 5 words, and no call changes
\* the connection's four-tuple or window.
C8_PortsAndWindow ==
    /\ reply.some =>
          /\ Out.src_port = conn.dst_port
          /\ Out.dst_port = conn.src_port
          /\ Out.window_size = conn.window_size
          /\ header_len(Out.options) = 5
    /\ conn.src_ip = pre.src_ip /\ conn.dst_ip = pre.dst_ip
    /\ conn.src_port = pre.src_port /\ conn.dst_port = pre.dst_port
    /\ conn.window_size = pre.window_size

\* the ACK|FIN of the close has been returned
C8_Witness ==
    /\ reply.some
    /\ fin(Out.options)
    /\ conn.state = "LastAck"

\* C9: Closed is absorbing. A call on a Closed connection returns nothing,
\* does not invoke the callback and leaves the connection as it was.
C9_ClosedAbsorbing ==
    (Handled /\ pre.state = "Closed") =>
        /\ ~panicked
        /\ reply = None
        /\ called = <<>>
        /\ conn = pre

\* a segment was handled by a connection that was already Closed
C9_Witness ==
    /\ Handled /\ pre.state = "Closed"
    /\ conn.state = "Closed"

----------------------------------------------------------------------------
(* Properties of the packet builder and the codecs, checked under CodecSpec *)

\* C10: a record written to an empty packet whose capacity is the record's
\* len() is written without error and fills exactly len() bytes; a DHCP
\* Discover is 250 bytes and a DHCP Request 256 bytes.
C10_WireLength ==
    (rec.some /\ tx.cap = WriteOut_len(rec.val)) =>
        /\ wres = "ok"
        /\ Len(tx.data) = WriteOut_len(rec.val)
        /\ (rec.val.kind = "Dhcp" /\ rec.val.operation.tag = "Discover") =>
              Len(tx.data) = 250
        /\ (rec.val.kind = "Dhcp" /\ rec.val.operation.tag = "Request") =>
              Len(tx.data) = 256

\* a DHCP Request inside UDP, IPv4 and Ethernet filled its packet exactly
C10_Witness ==
    /\ rec.some /\ wres = "ok"
    /\ rec.val.kind = "Ethernet"
    /\ rec.val.payload.kind = "Ipv4"
    /\ rec.val.payload.payload.kind = "Udp"
    /\ rec.val.payload.payload.payload.kind = "Dhcp"
    /\ rec.val.payload.payload.payload.operation.tag = "Request"
    /\ tx.cap = WriteOut_len(rec.val)
    /\ Len(tx.data) = 14 + 20 + 8 + 256

\* the IPv4 packet of the record last written, and the offset of its first
\* byte in the packet: the record itself, or the payload of an Ethernet frame
HasIpv4 ==
    /\ rec.some /\ wres = "ok"
    /\ \/ rec.val.kind = "Ipv4"
       \/ rec.val.kind = "Ethernet" /\ rec.val.payload.kind = "Ipv4"
WrittenIpv4 == IF rec.val.kind = "Ipv4" THEN rec.val ELSE rec.val.payload
Ipv4Offset == IF rec.val.kind = "Ipv4" THEN 0 ELSE 14
WrittenIpv4Header == SubSeq(tx.data, Ipv4Offset + 1, Ipv4Offset + 20)
WrittenIpv4Payload == SubSeq(tx.data, Ipv4Offset + 21, Len(tx.data))

\* the sum of the big-endian 16-bit words from..to of d, modulo 0xffff (an
\* odd last byte is the high byte of a word)
RECURSIVE WordsMod(_, _, _)
WordsMod(d, from, to) ==
    IF from > to THEN 0
    ELSE IF from = to
         THEN (d[2 * from - 1] * 256 + (IF 2 * from <= Len(d) THEN d[2 * from] ELSE 0)) % 65535
         ELSE LET mid == (from + to) \div 2
              IN  (WordsMod(d, from, mid) + WordsMod(d, mid + 1, to)) % 65535

\* the 16-bit one's-complement sum of the words of d: the sum with the
\* carries added back in, which is 0 only if every word is 0
OnesComplementSum(d) ==
    LET t == WordsMod(d, 1, (Len(d) + 1) \div 2)
    IN  IF t # 0 THEN t
        ELSE IF \A i \in 1..Len(d) : d[i] = 0 THEN 0 ELSE 65535

\* the pseudo header of the written IPv4 packet for an L4 protocol number
PseudoHeaderBytes(protocol_number) ==
    WrittenIpv4.header.src_addr \o WrittenIpv4.header.dst_addr
    \o <<0, protocol_number,
         Len(WrittenIpv4Payload) \div 256, Len(WrittenIpv4Payload) % 256>>

\* C13: a written IPv4 header is 20 bytes beginning 0x45 0x00, with total
\* length 20 + payload length, identification 0, flags/fragment 0x4000,
\* TTL 64, the protocol and the addresses of the record, and the one's-
\* complement sum of its 20 bytes, checksum field included, is 0xffff.
C13_Ipv4Header ==
    HasIpv4 =>
        LET h == WrittenIpv4Header
        IN  /\ Len(h) = 20
            /\ h[1] = 69 /\ h[2] = 0
            /\ h[3] * 256 + h[4] = Len(tx.data) - Ipv4Offset
            /\ h[3] * 256 + h[4] = 20 + WriteOut_len(WrittenIpv4.payload)
            /\ h[5] = 0 /\ h[6] = 0
            /\ h[7] = 64 /\ h[8] = 0
            /\ h[9] = 64
            /\ h[10] = IpProtocol_number(WrittenIpv4.header.protocol)
            /\ SubSeq(h, 13, 16) = WrittenIpv4.header.src_addr
            /\ SubSeq(h, 17, 20) = WrittenIpv4.header.dst_addr
            /\ OnesComplementSum(h) = 65535

\* an IPv4 packet of the greatest total length, 65535 bytes, was written
C13_Witness ==
    /\ HasIpv4
    /\ Len(tx.data) - Ipv4Offset = 65535
    /\ WrittenIpv4Header[3] = 255 /\ WrittenIpv4Header[4] = 255

\* C14: in a written IPv4 + UDP packet the one's-complement sum of the
\* pseudo header (src, dst, zero, 17, UDP length) and all UDP bytes,
\* checksum field included, is 0xffff.
C14_UdpChecksum ==
    (HasIpv4 /\ WrittenIpv4.payload.kind = "Udp") =>
        OnesComplementSum(PseudoHeaderBytes(17) \o WrittenIpv4Payload) = 65535

\* a DHCP request in UDP, IPv4 and Ethernet was written, with a checksum
\* field that differs from the complement of the sum of the UDP bytes alone
C14_Witness ==
    /\ HasIpv4
    /\ rec.val.kind = "Ethernet"
    /\ WrittenIpv4.payload.kind = "Udp"
    /\ WrittenIpv4.payload.payload.kind = "Dhcp"
    /\ Len(WrittenIpv4Payload) = 8 + 256
    /\ OnesComplementSum(WrittenIpv4Payload) # 65535

\* C15: in a written IPv4 packet around a TCP segment the one's-complement
\* sum of the pseudo header (src, dst, zero, 6, TCP length) and all TCP
\* bytes, checksum field included, is 0xffff.
C15_TcpChecksum ==
    (HasIpv4 /\ WrittenIpv4.payload.kind = "Tcp") =>
        OnesComplementSum(PseudoHeaderBytes(6) \o WrittenIpv4Payload) = 65535

\* C16: the checksum field of a written IPv4 + UDP packet is not zero.
C16_UdpChecksumNonZero ==
    (HasIpv4 /\ WrittenIpv4.payload.kind = "Udp") =>
        <<WrittenIpv4Payload[7], WrittenIpv4Payload[8]>> # <<0, 0>>

\* the bytes a DHCP client message is made of, for a transaction id given as
\* its four bytes, and an option area
DhcpWire(xid, mac, options) ==
    <<1, 1, 6, 0>> \o xid \o <<0, 0>> \o <<128, 0>> \o Zeros(16)
    \o mac \o Zeros(10) \o Zeros(192) \o <<99, 130, 83, 99>> \o options

\* the four bytes of a transaction id, most significant first
XidBytes(x) == <<x.hi \div 256, x.hi % 256, x.lo \div 256, x.lo % 256>>

\* C18: a Discover is written as op 1, htype 1, hlen 6, hops 0, xid, secs 0,
\* flags 0x8000, 16 zero bytes, the MAC and 10 zero bytes, 192 zero bytes,
\* the cookie 63 82 53 63 and the options 53,1,1,55,4,1,3,15,6,255; a
\* Request has the same fixed part and the options 53,1,3,50,4,ip,
\* 54,4,server ip,255.
C18_DhcpEncoding ==
    (rec.some /\ wres = "ok" /\ rec.val.kind = "Dhcp") =>
        LET r == rec.val
        IN  /\ r.operation.tag = "Discover" =>
                 tx.data = DhcpWire(XidBytes(r.transaction_id), r.mac,
                                    <<53, 1, 1, 55, 4, 1, 3, 15, 6, 255>>)
            /\ r.operation.tag = "Request" =>
                 tx.data = DhcpWire(XidBytes(r.transaction_id), r.mac,
                                    <<53, 1, 3, 50, 4>> \o r.operation.ip
                                    \o <<54, 4>> \o r.operation.dhcp_server_ip
                                    \o <<255>>)

\* a Request with transaction id 0xcafebabe was written
C18_Witness ==
    /\ rec.some /\ wres = "ok"
    /\ rec.val.kind = "Dhcp"
    /\ rec.val.operation.tag = "Request"
    /\ rec.val.transaction_id = [hi |-> 51966, lo |-> 47806]
    /\ Len(tx.data) = 256
    /\ SubSeq(tx.data, 5, 8) = <<202, 254, 186, 190>>

----------------------------------------------------------------------------
(* Properties of the TxPacket methods, checked under BuilderSpec *)

PushOps == {"push_byte", "push_u16", "push_u32", "push_bytes"}

\* the number of bytes the last pushing call was to append
PushedLen ==
    CASE bcall.op = "push_byte" -> 1
      [] bcall.op = "push_u16" -> 2
      [] bcall.op = "push_u32" -> 4
      [] bcall.op = "push_bytes" -> Len(bcall.value)

\* b is the argument of the last pushing call as it goes on the wire:
\* integers most significant byte first
IsWireFormOf(b) ==
    /\ \A i \in 1..Len(b) : b[i] \in 0..255
    /\ CASE bcall.op = "push_byte" -> b[1] = bcall.value
         [] bcall.op = "push_u16" -> b[1] * 256 + b[2] = bcall.value
         [] bcall.op = "push_u32" -> /\ b[1] * 256 + b[2] = bcall.value.hi
                                    /\ b[3] * 256 + b[4] = bcall.value.lo
         [] bcall.op = "push_bytes" -> b = bcall.value

\* C11: on a packet of capacity C a push of n bytes succeeds iff
\* length + n <= C; it then returns the length before the push and appends
\* exactly the n bytes (integers big-endian), and otherwise fails leaving
\* length and contents as they were.  The length never exceeds C, and bytes
\* already appended change only by a set at offsets below the length.
C11_BuilderContract ==
    /\ Len(tx.data) <= tx.cap
    /\ bcall.op \in PushOps =>
         /\ bcall.ret.some <=> Len(bcall.pre) + PushedLen <= tx.cap
         /\ bcall.ret.some =>
              /\ bcall.ret.val = Len(bcall.pre)
              /\ Len(tx.data) = Len(bcall.pre) + PushedLen
              /\ SubSeq(tx.data, 1, Len(bcall.pre)) = bcall.pre
              /\ IsWireFormOf(SubSeq(tx.data, Len(bcall.pre) + 1, Len(tx.data)))
         /\ ~bcall.ret.some => tx.data = bcall.pre
    /\ bcall.op = "set_u16" =>
         /\ Len(tx.data) = Len(bcall.pre)
         /\ \A i \in 1..Len(tx.data) :
              tx.data[i] # bcall.pre[i] =>
                 /\ i \in {bcall.value[1] + 1, bcall.value[1] + 2}
                 /\ bcall.value[1] + 2 <= Len(bcall.pre)

\* a push_u16 at offset 2 filled a packet of capacity 4 exactly, after
\* which a push_byte found no space
C11_Witness ==
    /\ bcall.op = "push_byte"
    /\ ~bcall.ret.some
    /\ tx.cap = 4
    /\ Len(tx.data) = 4
    /\ bcall.pre = tx.data
    /\ tx.data[3] * 256 + tx.data[4] = 258

----------------------------------------------------------------------------
(* Properties of the parsers, checked under ParseSpec *)

\* the last call was parse::parse / the raw Ethernet parse; what it returned
ParsedTyped == parsed.some /\ parsed.val.parser = "typed"
ParsedRaw == parsed.some /\ parsed.val.parser = "raw"
Res == parsed.val.res

\* the written record is an Ethernet frame around ARP, around IPv4 + UDP with
\* an opaque payload, or around IPv4 + ICMP echo request
InRoundTripFamily(r) ==
    \/ r.payload.kind = "Arp"
    \/ /\ r.payload.kind = "Ipv4"
       /\ \/ r.payload.payload.kind = "Udp" /\ r.payload.payload.payload.kind = "Slice"
          \/ /\ r.payload.payload.kind = "Icmp"
             /\ r.payload.payload.type_.tag = "EchoRequest"

\* the user-visible fields of the parsed tree q are those of the record r
SameFields(q, r) ==
    /\ q.header.src_addr = r.header.src_addr
    /\ q.header.dst_addr = r.header.dst_addr
    /\ q.header.ether_type = r.header.ether_type
    /\ q.payload.kind = r.payload.kind
    /\ r.payload.kind = "Arp" => q.payload = r.payload
    /\ r.payload.kind = "Ipv4" =>
         /\ q.payload.header = r.payload.header
         /\ q.payload.payload.kind = r.payload.payload.kind
         /\ r.payload.payload.kind = "Udp" =>
              /\ q.payload.payload.header = r.payload.payload.header
              /\ q.payload.payload.payload = r.payload.payload.payload
         /\ r.payload.payload.kind = "Icmp" =>
              /\ q.payload.payload.type_ = r.payload.payload.type_
              /\ q.payload.payload.data = r.payload.payload.data

\* C12: parsing the bytes written from a record of the three families
\* (Ethernet + ARP, Ethernet + IPv4 + UDP with opaque payload, Ethernet +
\* IPv4 + ICMP echo request) succeeds and gives back the record's fields.
C12_RoundTrip ==
    (ParsedTyped /\ sent.some /\ InRoundTripFamily(sent.val)) =>
        /\ Res.tag = "Ok"
        /\ SameFields(Res.val, sent.val)

\* option areas without an option 53: empty, ended by 255, padded with 0,
\* cut inside an option, and with bytes after the end option
AreasWithoutOption53 ==
    { <<>>, <<255>>, <<0, 0, 0>>, <<12, 4, 1>>, <<1, 4, 255, 255, 255, 0, 255>> }

\* the frame carries a UDP datagram on the DHCP ports whose payload is
\* shorter than 240 bytes or has no option 53
IsBadDhcpDatagram(r) ==
    /\ r.payload.kind = "Ipv4"
    /\ r.payload.payload.kind = "Udp"
    /\ <<r.payload.payload.header.src_port, r.payload.payload.header.dst_port>>
          \in { <<67, 68>>, <<68, 67>> }
    /\ r.payload.payload.payload.kind = "Slice"
    /\ \/ Len(r.payload.payload.payload.bytes) < 240
       \/ \E o \in AreasWithoutOption53 : r.payload.payload.payload.bytes = DhcpFixed \o o

\* C17: for a UDP datagram on ports (67,68) or (68,67) whose payload is
\* shorter than 240 bytes or holds no well-formed option 53, the DHCP
\* sub-parse returns Unimplemented and does not abort, and the UDP layer
\* itself parses.
C17_DhcpParseBounds ==
    (ParsedTyped /\ sent.some /\ Len(frame) >= MinFrameLen /\ IsBadDhcpDatagram(sent.val)) =>
        /\ Res.tag # "Panic"
        /\ Res.tag = "Err" => Res.err.kind = "Unimplemented"
        /\ UdpPacket_parse(slice_from(frame, 14 + 20)).tag = "Ok"

\* C19: the typed parse of a frame of at least 60 bytes with ether type
\* IPv4 succeeds whatever the IP protocol: protocol 17 gives a Udp leaf
\* (Dhcp on the port pairs (67,68) and (68,67), else the bytes), protocol 1
\* an Icmp leaf, and every other number, TCP (6) included, an Other leaf
\* with the IPv4 payload bytes.
C19_TypedTree ==
    (ParsedTyped /\ Len(frame) >= MinFrameLen /\ frame[13] = 8 /\ frame[14] = 0) =>
        /\ Res.tag = "Ok"
        /\ Res.val.payload.kind = "Ipv4"
        /\ frame[24] = 17 =>
             /\ Res.val.payload.payload.kind = "Udp"
             /\ IF <<frame[35] * 256 + frame[36], frame[37] * 256 + frame[38]>>
                     \in { <<67, 68>>, <<68, 67>> }
                THEN Res.val.payload.payload.payload.kind = "Dhcp"
                ELSE Res.val.payload.payload.payload = Slice(slice_from(frame, 14 + 20 + 8))
        /\ frame[24] = 1 => Res.val.payload.payload.kind = "Icmp"
        /\ frame[24] \notin {1, 17} =>
             /\ Res.val.payload.payload.kind = "Unknown"
             /\ Res.val.payload.payload.bytes = slice_from(frame, 14 + 20)

\* C20: the raw Ethernet parse of n bytes returns Truncated(n) for every
\* n < 60 and never Truncated for n >= 60; a frame of exactly 60 bytes parses.
C20_Truncated ==
    ParsedRaw =>
        /\ Len(frame) < 60 => Res = Err(Truncated(Len(frame)))
        /\ Len(frame) >= 60 => ~(Res.tag = "Err" /\ Res.err.kind = "Truncated")
        /\ Len(frame) = 60 => Res.tag = "Ok"

\* a written frame of exactly 60 bytes was handed to the raw parser, which
\* returned its header and the bytes after it
C20_Witness ==
    /\ ParsedRaw
    /\ sent.some
    /\ Len(frame) = 60
    /\ Res.tag = "Ok"
    /\ Res.val.payload.bytes = slice_from(frame, 14)

----------------------------------------------------------------------------
(* Properties of the ICMP echo reply, checked under IcmpSpec *)

\* echo_reply has been called and has returned
Replied == wres # "none" /\ wres # "panic"

\* C21: for an EchoRequest q, echo_reply of the parse of the bytes written
\* from q is an EchoReply with q's id, sequence number and data; written, it
\* begins with type 0 and code 0 and the one's-complement sum of all its
\* bytes is 0xffff.  echo_reply on a packet that is no EchoRequest aborts.
C21_EchoReply ==
    /\ (sent.some /\ wres # "none" /\ ~parsed.some) =>
          (wres = "panic" <=> sent.val.type_.tag # "EchoRequest")
    /\ (sent.some /\ sent.val.type_.tag = "EchoRequest" /\ parsed.some) =>
          /\ parsed.val.res.tag = "Ok"
          /\ wres # "panic"
    /\ (sent.some /\ Replied) =>
          /\ rec.val.type_ = [tag |-> "EchoReply", id |-> sent.val.type_.id,
                              sequence_number |-> sent.val.type_.sequence_number]
          /\ rec.val.data = sent.val.data
          /\ wres = "ok"
          /\ Len(tx.data) = 8 + Len(sent.val.data)
          /\ tx.data[1] = 0 /\ tx.data[2] = 0
          /\ tx.data[5] * 256 + tx.data[6] = sent.val.type_.id
          /\ tx.data[7] * 256 + tx.data[8] = sent.val.type_.sequence_number
          /\ SubSeq(tx.data, 9, Len(tx.data)) = sent.val.data
          /\ OnesComplementSum(tx.data) = 65535

\* the reply to a parsed request with id 0x1234, sequence number 65535 and
\* an odd number of data bytes has been written
C21_Witness ==
    /\ sent.some /\ parsed.some /\ Replied
    /\ sent.val.type_ = [tag |-> "EchoRequest", id |-> 4660, sequence_number |-> 65535]
    /\ Len(sent.val.data) = 1
    /\ rec.val.type_.tag = "EchoReply"
    /\ Len(tx.data) = 9

----------------------------------------------------------------------------
(* Properties of the handshake, of the Established arms and of the states *)

\* C22: a SYN handled in Listen or SynReceived is answered with a SYN+ACK
\* whose sequence number is snd_seq and leaves snd_seq as it was (so that a
\* retransmitted SYN is answered with the same sequence number), and snd_seq
\* advances by exactly 1 when the ACK completing the handshake is handled in
\* SynReceived.
C22_SynRetransmit ==
    /\ Handled /\ pre.state \in {"Listen", "SynReceived"} /\ InFlags = SYN
       => /\ reply.some
          /\ Out.options.flags = SYN + ACK
          /\ Out.sequence_number = pre.sequence_number
          /\ conn.sequence_number = pre.sequence_number
    /\ Handled /\ pre.state = "SynReceived" /\ InFlags = ACK
       => conn.sequence_number = wrapping_add(pre.sequence_number, u32(1))

\* C23: in Established every segment whose sequence number is below rcv_ack
\* (unsigned) is an old duplicate whatever its flags, FIN included: nothing
\* is returned, the callback is not invoked and the connection is unchanged.
C23_OldDuplicate ==
    Handled /\ pre.state = "Established" /\ lt(InSeq, pre.ack_number)
    => /\ ~reply.some
       /\ called = <<>>
       /\ ~panicked
       /\ conn = pre

\* C24: in Established a segment whose sequence number is above rcv_ack is
\* never accepted whatever its flags, FIN included: the call aborts, returns
\* no reply and leaves state, snd_seq and rcv_ack as they were.
C24_OutOfOrderFatal ==
    Handled /\ pre.state = "Established" /\ lt(pre.ack_number, InSeq)
    => /\ panicked
       /\ ~reply.some
       /\ called = <<>>
       /\ conn = pre

\* C25: in Established an in-order segment without FIN is suppressed (nothing
\* returned, callback not invoked) exactly when its flags are ACK alone and
\* its payload is empty; with ACK and other bits, or with a payload, the
\* callback is invoked and an ACK segment is returned.
C25_BareAckSuppressed ==
    Handled /\ pre.state = "Established" /\ InSeq = pre.ack_number
            /\ ~fin(pkt.val.header.options)
    => IF InFlags = ACK /\ InPayload = <<>>
       THEN ~reply.some /\ called = <<>>
       ELSE /\ called = <<InPayload>>
            /\ reply.some
            /\ Out.options.flags = ACK

\* C26: along every sequence of handle_packet calls on a connection made by
\* TcpConnection::new the state is one of Listen, SynReceived, Established,
\* LastAck and Closed; SynSent, FinWait1, FinWait2, CloseWait, Closing and
\* TimeWait are never entered.
C26_ReachableStates ==
    /\ conn.state \in {"Listen", "SynReceived", "Established", "LastAck", "Closed"}
    /\ conn.state \notin {"SynSent", "FinWait1", "FinWait2", "CloseWait",
                          "Closing", "TimeWait"}

\* the connection has walked through all five states: the call that has just
\* returned took it from LastAck to Closed, four calls after Listen
C26_Witness ==
    /\ Handled /\ calls = 4
    /\ pre.state = "LastAck" /\ conn.state = "Closed"
    /\ emitted_syn = 1 /\ emitted_fin = 1

\* C29: handle_packet invokes the callback at most once per call, and only
\* in Established for an in-order segment (seq equal to rcv_ack before the
\* call) without FIN that is not an empty segment with ACK set; a call that
\* changes the state, or a call in Closed, Listen, SynReceived or LastAck,
\* does not invoke it.
C29_CallbackOnlyForData ==
    /\ Len(called) <= 1
    /\ called # <<>>
       => /\ Handled
          /\ pre.state = "Established"
          /\ InSeq = pre.ack_number
          /\ ~fin(pkt.val.header.options)
          /\ ~(ack(pkt.val.header.options) /\ InPayload = <<>>)
          /\ conn.state = pre.state
    /\ Handled /\ (conn.state # pre.state
                   \/ pre.state \in {"Closed", "Listen", "SynReceived", "LastAck"})
       => called = <<>>

\* the callback was invoked once, for an in-order segment without ACK, and
\* returned nothing
C29_Witness ==
    /\ Handled /\ Len(called) = 1
    /\ pre.state = "Established"
    /\ ~ack(pkt.val.header.options)
    /\ ~cb_ret.some

\* C30: a data segment (payload, no FIN) that was accepted in Established and
\* is delivered again is an old duplicate for every rcv_ack, also when
\* accepting it made rcv_ack wrap past 2^32: nothing is returned, the callback
\* is not invoked, the connection is unchanged and the call does not abort.
C30_Redelivery ==
    Handled /\ pre.state = "Established" /\ ~fin(pkt.val.header.options)
            /\ accepted = Some(Segment(pkt.val))
            /\ ~AcceptsData(pre, pkt.val)
    => /\ ~panicked
       /\ ~reply.some
       /\ called = <<>>
       /\ conn = pre

----------------------------------------------------------------------------
(* Properties of the Ethernet and ARP parsers, checked under ParseSpec *)

\* C27: for a frame of at least 60 bytes the raw Ethernet parse returns a
\* header whose destination address is bytes [0..6) and whose source address
\* is bytes [6..12), where write_out puts dst_addr and src_addr, the ether
\* type named by bytes [12..14) (0x0800 IPv4, 0x0806 ARP, any other number
\* unknown) and the payload bytes [14..).
C27_EthernetFields ==
    ParsedRaw /\ Len(frame) >= MinFrameLen
    => /\ Res.tag = "Ok"
       /\ Res.val.header.dst_addr = SubSeq(frame, 1, 6)
       /\ Res.val.header.src_addr = SubSeq(frame, 7, 12)
       /\ Res.val.header.ether_type.tag =
            LET n == frame[13] * 256 + frame[14]
            IN  IF n = 2048 THEN "Ipv4" ELSE IF n = 2054 THEN "Arp" ELSE "Unknown"
       /\ Res.val.payload.bytes = SubSeq(frame, 15, Len(frame))

\* C28: the ARP parse checks the fixed fields: it returns Malformed when the
\* operation at offset 6..8 is neither 1 nor 2 and also when hardware type,
\* protocol type, hardware size or protocol size is not 1, 0x0800, 6, 4; it
\* returns a record only when the four match and the operation is 1 or 2.
C28_ArpValidation ==
    ParsedTyped /\ Len(frame) >= MinFrameLen /\ SubSeq(frame, 13, 14) = <<8, 6>>
    => LET arp == SubSeq(frame, 15, Len(frame))
           operation == arp[7] * 256 + arp[8]
       IN  IF SubSeq(arp, 1, 6) = <<0, 1, 8, 0, 6, 4>> /\ operation \in {1, 2}
           THEN Res.tag = "Ok" /\ Res.val.payload.kind = "Arp"
           ELSE Res.tag = "Err" /\ Res.err.kind = "Malformed"

====
